---- MODULE Spec2Model ----
(***************************************************************************)
(* Verification model of grappa: the tuple indexer                         *)
(* (src/grappa/ff_utils/create_graph/tuple_indices.py) and the             *)
(* conformational dataset entry MolData (src/grappa/data/MolData.py).       *)
(***************************************************************************)
EXTENDS Integers, Sequences, FiniteSets, TLC

\* ------------------------------------------------------------------------
\* Bounds
\* ------------------------------------------------------------------------
NAtoms == 4
MaxBonds == 4
MaxConfs == 2
MaxFF == 1
MolAtoms == 1

\* the length of the coordinate axis of xyz and of the gradients
Dim == 3

Atoms == 0..(NAtoms - 1)

VARIABLES mol, reduce_symmetry, indices, mol2, indices2,
          md, npz, md_loaded, err, call,
          system, tr, vl, te, ret, files

tupleVars == <<mol, reduce_symmetry, indices, mol2, indices2>>

molDataVars == <<md, npz, md_loaded, err, call>>

\* the openmm System object the caller holds
systemVars == <<system>>

\* the value the last call returned, and the files of the target directory
utilVars == <<ret, files>>

\* the train, validation and test sets of get_dataloaders
loaderVars == <<tr, vl, te>>

\* ------------------------------------------------------------------------
\* Generic sequence helpers
\* ------------------------------------------------------------------------
RECURSIVE Concat(_)
Concat(ss) == IF Len(ss) = 0 THEN <<>> ELSE Head(ss) \o Concat(Tail(ss))

SeqMap(f(_), s) == [i \in 1..Len(s) |-> f(s[i])]

FlatMap(f(_), s) == Concat(SeqMap(f, s))

RECURSIVE Perms(_)
Perms(S) == IF S = {} THEN {<<>>}
            ELSE UNION {{<<x>> \o p : p \in Perms(S \ {x})} : x \in S}

RECURSIVE SortedSeq(_)
SortedSeq(S) == IF S = {} THEN <<>>
                ELSE LET x == CHOOSE y \in S : \A z \in S : y <= z
                     IN <<x>> \o SortedSeq(S \ {x})

\* ------------------------------------------------------------------------
\* The molecule as the tuple indexer sees it (an rdkit Mol): GetBonds() is
\* a list of (begin, end) pairs, GetAtoms() iterates by index, and
\* atom.GetNeighbors() is a list in some traversal order.
\* ------------------------------------------------------------------------
Pairs == {p \in Atoms \X Atoms : p[1] < p[2]}

\* every graph on the atoms, and those with at most MaxBonds bonds
AllGraphs == SUBSET Pairs

Graphs == {E \in AllGraphs : Cardinality(E) <= MaxBonds}

Bonded(E, a, b) == <<a, b>> \in E \/ <<b, a>> \in E

Nbr(E, a) == {b \in Atoms : Bonded(E, a, b)}

\* edges of E in lexicographic order
RECURSIVE SortedEdges(_)
SortedEdges(E) ==
    IF E = {} THEN <<>>
    ELSE LET e == CHOOSE x \in E : \A y \in E :
                      x[1] < y[1] \/ (x[1] = y[1] /\ x[2] <= y[2])
         IN <<e>> \o SortedEdges(E \ {e})

\* nbrs[a + 1] is the neighbour list of atom a
RECURSIVE NbrOrdersUpTo(_, _)
NbrOrdersUpTo(E, n) ==
    IF n = 0 THEN {<<>>}
    ELSE {Append(f, p) : f \in NbrOrdersUpTo(E, n - 1), p \in Perms(Nbr(E, n - 1))}

NbrOrders(E) == NbrOrdersUpTo(E, NAtoms)

SortedNbrs(E) == [i \in 1..NAtoms |-> SortedSeq(Nbr(E, i - 1))]

OrientedBonds(E, flip) ==
    LET es == SortedEdges(E)
    IN [i \in 1..Len(es) |-> IF es[i] \in flip THEN <<es[i][2], es[i][1]>> ELSE es[i]]

\* the molecules drawn as inputs: any bond orientation with index-ordered
\* neighbour lists, or any neighbour order with begin < end bonds
Mols(E) ==
    {[bonds |-> OrientedBonds(E, flip), nbrs |-> SortedNbrs(E)] : flip \in SUBSET E}
    \cup {[bonds |-> OrientedBonds(E, {}), nbrs |-> o] : o \in NbrOrders(E)}

GetAtoms(m) == [i \in 1..NAtoms |-> i - 1]

GetNeighbors(m, a) == m.nbrs[a + 1]

EdgesOf(m) == {IF b[1] < b[2] THEN b ELSE <<b[2], b[1]>> :
                 b \in {m.bonds[i] : i \in 1..Len(m.bonds)}}

\* ------------------------------------------------------------------------
\* tuple_indices.py
\* ------------------------------------------------------------------------
\* the permutation lists of get_symmetric_tuples (zero-based in the source)
PermsN4 == << <<0,1,2,3>>, <<3,2,1,0>>, <<3,1,2,0>>, <<0,2,1,3>> >>
PermsN3 == << <<0,1,2>>, <<2,1,0>> >>
PermsN2 == << <<0,1>>, <<1,0>> >>

Permute(t, p) == [i \in 1..Len(p) |-> t[p[i] + 1]]

\* a get_symmetric_tuples that returns the tuple alone, without its
\* symmetric variants
get_symmetric_tuples_identity_only(level, t) == << t >>

get_symmetric_tuples(level, t) ==
    IF level = "n4" \/ level = "n4_improper"
    THEN [i \in 1..Len(PermsN4) |-> Permute(t, PermsN4[i])]
    ELSE IF level = "n3"
    THEN [i \in 1..Len(PermsN3) |-> Permute(t, PermsN3[i])]
    ELSE [i \in 1..Len(PermsN2) |-> Permute(t, PermsN2[i])]

SeqRange(s) == {s[i] : i \in 1..Len(s)}

\* an apply_symmetry that takes the reduce_symmetry=False branch always
apply_symmetry_never_reduce(idx_set, tuple_, level, reduce) ==
    idx_set \cup SeqRange(get_symmetric_tuples(level, tuple_))

apply_symmetry(idx_set, tuple_, level, reduce) ==
    LET invariant_tuples == get_symmetric_tuples(level, tuple_)
    IN IF reduce
       THEN IF ~(\E i \in 1..Len(invariant_tuples) : invariant_tuples[i] \in idx_set)
            THEN idx_set \cup {tuple_}
            ELSE idx_set
       ELSE IF ~(\A i \in 1..Len(invariant_tuples) : invariant_tuples[i] \in idx_set)
            THEN idx_set \cup SeqRange(invariant_tuples)
            ELSE idx_set

\* fold apply_symmetry over the candidate tuples in the order the loops
\* produce them
RECURSIVE AddAll(_, _, _, _)
AddAll(idx_set, cands, level, reduce) ==
    IF Len(cands) = 0 THEN idx_set
    ELSE AddAll(apply_symmetry(idx_set, Head(cands), level, reduce),
                Tail(cands), level, reduce)

construct_bonds(m, reduce) == AddAll({}, m.bonds, "n2", reduce)

AngleCandidates(m) ==
    FlatMap(LAMBDA atom1 :
      FlatMap(LAMBDA atom2 :
        FlatMap(LAMBDA atom3 :
          IF atom1 = atom3 THEN <<>> ELSE << <<atom1, atom2, atom3>> >>,
          GetNeighbors(m, atom2)),
        GetNeighbors(m, atom1)),
      GetAtoms(m))

construct_angles(m, reduce) == AddAll({}, AngleCandidates(m), "n3", reduce)

\* the proper torsion the inner atom4 loop builds (lower terminal id first)
ProperOf(atom1, atom2, atom3, atom4) ==
    IF atom1 < atom4 THEN <<atom1, atom2, atom3, atom4>>
    ELSE <<atom4, atom3, atom2, atom1>>

\* the improper the atom3i loop builds: central atom2 swapped to
\* position central_atom_position - 1 = 2
ImproperOf(atom1, atom2, atom3, atom3i) == <<atom1, atom3, atom2, atom3i>>

\* the torsion loops without the "Exclude i-j-k-i" test
TorsionCandidates_no_ijki_test(m) ==
    FlatMap(LAMBDA atom1 :
      FlatMap(LAMBDA atom2 :
        FlatMap(LAMBDA atom3 :
          IF atom1 = atom3 THEN <<>>
          ELSE
            FlatMap(LAMBDA atom4 :
              IF atom4 = atom2 THEN <<>>
              ELSE << [level |-> "n4", t |-> ProperOf(atom1, atom2, atom3, atom4)] >>,
              GetNeighbors(m, atom3))
            \o
            FlatMap(LAMBDA atom3i :
              IF atom3i = atom3 \/ atom3i = atom1 THEN <<>>
              ELSE << [level |-> "n4_improper", t |-> ImproperOf(atom1, atom2, atom3, atom3i)] >>,
              GetNeighbors(m, atom2)),
          GetNeighbors(m, atom2)),
        GetNeighbors(m, atom1)),
      GetAtoms(m))

\* candidates of construct_torsions in loop order, tagged with their level
TorsionCandidates(m) ==
    FlatMap(LAMBDA atom1 :
      FlatMap(LAMBDA atom2 :
        FlatMap(LAMBDA atom3 :
          IF atom1 = atom3 THEN <<>>
          ELSE
            FlatMap(LAMBDA atom4 :
              IF atom4 = atom2 \/ atom1 = atom4 THEN <<>>
              ELSE << [level |-> "n4", t |-> ProperOf(atom1, atom2, atom3, atom4)] >>,
              GetNeighbors(m, atom3))
            \o
            FlatMap(LAMBDA atom3i :
              IF atom3i = atom3 \/ atom3i = atom1 THEN <<>>
              ELSE << [level |-> "n4_improper", t |-> ImproperOf(atom1, atom2, atom3, atom3i)] >>,
              GetNeighbors(m, atom2)),
          GetNeighbors(m, atom2)),
        GetNeighbors(m, atom1)),
      GetAtoms(m))

RECURSIVE AddTorsions(_, _, _)
AddTorsions(acc, cands, reduce) ==
    IF Len(cands) = 0 THEN acc
    ELSE LET c == Head(cands)
         IN AddTorsions(
              IF c.level = "n4"
              THEN [acc EXCEPT !.propers = apply_symmetry(acc.propers, c.t, "n4", reduce)]
              ELSE [acc EXCEPT !.impropers = apply_symmetry(acc.impropers, c.t, "n4_improper", reduce)],
              Tail(cands), reduce)

construct_torsions(m, reduce) ==
    AddTorsions([propers |-> {}, impropers |-> {}], TorsionCandidates(m), reduce)

atom_indices(m) == GetAtoms(m)

get_indices(m, reduce) ==
    LET tors == construct_torsions(m, reduce)
    IN [n1 |-> atom_indices(m),
        n2 |-> construct_bonds(m, reduce),
        n3 |-> construct_angles(m, reduce),
        n4 |-> tors.propers,
        n4_improper |-> tors.impropers]

NoIndices == [n1 |-> <<>>, n2 |-> {}, n3 |-> {}, n4 |-> {}, n4_improper |-> {}]
NoMol == [bonds |-> <<>>, nbrs |-> <<>>]

\* ------------------------------------------------------------------------
\* State machine of the tuple indexer
\* ------------------------------------------------------------------------
\* a molecule with at most MaxBonds bonds, to be reduced
\* no MolData object (before construction, or the construction raised)
NoMolData == [exists |-> FALSE]

\* no exported dictionary yet
NoDict == [k \in {<<"<no dict>">>} |-> 0]

HasDict(d) == <<"<no dict>">> \notin DOMAIN d

\* nothing returned yet
NoReturn == [returned |-> FALSE]

\* an empty target directory: a function from file names to contents
NoFiles == << >>

\* no classmethod or constructor called yet
NoCall == [op |-> "", args |-> << >>]

InitTuples ==
    /\ \E E \in Graphs : mol \in Mols(E)
    /\ reduce_symmetry = TRUE
    /\ indices = NoIndices
    /\ mol2 = NoMol
    /\ indices2 = NoIndices
    /\ md = NoMolData
    /\ npz = NoDict
    /\ md_loaded = NoMolData
    /\ err = ""
    /\ call = NoCall
    /\ system = << >>
    /\ tr = << >> /\ vl = << >> /\ te = << >>
    /\ ret = NoReturn /\ files = NoFiles

\* a molecule with any bonds, with either value of reduce_symmetry
InitTuplesAnyGraph ==
    /\ \E E \in AllGraphs : mol \in Mols(E)
    /\ reduce_symmetry \in BOOLEAN
    /\ indices = NoIndices
    /\ mol2 = NoMol
    /\ indices2 = NoIndices
    /\ md = NoMolData
    /\ npz = NoDict
    /\ md_loaded = NoMolData
    /\ err = ""
    /\ call = NoCall
    /\ system = << >>
    /\ tr = << >> /\ vl = << >> /\ te = << >>
    /\ ret = NoReturn /\ files = NoFiles

\* get_indices(mol, reduce_symmetry)
GetIndices ==
    /\ indices = NoIndices
    /\ indices' = get_indices(mol, reduce_symmetry)
    /\ UNCHANGED <<mol, reduce_symmetry, mol2, indices2>>
    /\ UNCHANGED molDataVars
    /\ UNCHANGED systemVars /\ UNCHANGED loaderVars /\ UNCHANGED utilVars

\* the neighbour lists of m with positions i and i+1 of atom a's list swapped
SwapNbrs(m, a, i) ==
    [m EXCEPT !.nbrs[a + 1] =
        [j \in 1..Len(@) |-> IF j = i THEN @[i + 1] ELSE IF j = i + 1 THEN @[i] ELSE @[j]]]

\* the same graph traversed in another order: mol itself, or mol with two
\* adjacent entries of one neighbour list exchanged
Retraversals(m) ==
    {m} \cup UNION {{SwapNbrs(m, a, i) : i \in 1..(Len(GetNeighbors(m, a)) - 1)} : a \in Atoms}

\* a second derivation on the same graph, traversed in another order
GetIndicesAgain ==
    /\ indices # NoIndices
    /\ mol2 = NoMol
    /\ \E m \in Retraversals(mol) :
         /\ mol2' = m
         /\ indices2' = get_indices(m, reduce_symmetry)
    /\ UNCHANGED <<mol, reduce_symmetry, indices>>
    /\ UNCHANGED molDataVars
    /\ UNCHANGED systemVars /\ UNCHANGED loaderVars /\ UNCHANGED utilVars

NextTuples == GetIndices

NextTuplesAgain == GetIndices \/ GetIndicesAgain

vars == <<mol, reduce_symmetry, indices, mol2, indices2,
          md, npz, md_loaded, err, call, system, tr, vl, te, ret, files>>

\* one derivation per molecule
Spec == InitTuples /\ [][NextTuples]_vars

\* two derivations on the same graph, for any graph on the atoms
SpecAgain == InitTuplesAnyGraph /\ [][NextTuplesAgain]_vars

\* ------------------------------------------------------------------------
\* Properties of the tuple indexer
\* ------------------------------------------------------------------------
Derived == indices # NoIndices

Adj(a, b) == Bonded(EdgesOf(mol), a, b)

IsPath3(a, b, c) == a # c /\ Adj(a, b) /\ Adj(b, c)

IsPath4(i, j, k, l) ==
    Cardinality({i, j, k, l}) = 4 /\ Adj(i, j) /\ Adj(j, k) /\ Adj(k, l)

RECURSIVE Reach(_, _)
Reach(E, S) ==
    LET S2 == S \cup {b \in Atoms : \E a \in S : Bonded(E, a, b)}
    IN IF S2 = S THEN S ELSE Reach(E, S2)

Connected(E) == Reach(E, {0}) = Atoms

Reversed(t) == [i \in 1..Len(t) |-> t[Len(t) + 1 - i]]

\* the three orderings of an improper that keep the central atom at
\* zero-based index 2 and permute the other atoms cyclically
CyclicClass(t) == {t, <<t[2], t[4], t[3], t[1]>>, <<t[4], t[1], t[3], t[2]>>}

ReversalClass(t) == {t, Reversed(t)}

\* C1: with reduce_symmetry=True, for every path i-j-k-l of three bonds with
\* four distinct atoms the propers contain exactly one of (i,j,k,l) and
\* (l,k,j,i), the one whose first atom id is lower than its last, and the
\* propers contain nothing that is not such a path.
C1_ProperPerPath ==
    (Derived /\ reduce_symmetry) =>
        /\ \A i, j, k, l \in Atoms :
             (IsPath4(i, j, k, l) /\ i < l) =>
                 (<<i, j, k, l>> \in indices.n4 /\ <<l, k, j, i>> \notin indices.n4)
        /\ \A t \in indices.n4 : IsPath4(t[1], t[2], t[3], t[4])

\* C2: with reduce_symmetry=True, no improper (a,b,c,d) has one of its two
\* other cyclic orderings (b,d,c,a), (d,a,c,b) in the improper set as well.
C2_ImproperCyclicUnique ==
    (Derived /\ reduce_symmetry) =>
        \A t \in indices.n4_improper :
            CyclicClass(t) \cap indices.n4_improper = {t}

\* C3: with reduce_symmetry=True the bond set holds, for each edge {i,j},
\* exactly one of (i,j) and (j,i), and nothing else.
C3_OneBondPerEdge ==
    (Derived /\ reduce_symmetry) =>
        /\ \A e \in EdgesOf(mol) :
             Cardinality({e, Reversed(e)} \cap indices.n2) = 1
        /\ \A t \in indices.n2 : Len(t) = 2 /\ Adj(t[1], t[2])

\* C3 witness: a derived bond set with two bonds, one stored begin > end
C3_Witness ==
    /\ Derived /\ reduce_symmetry
    /\ Cardinality(indices.n2) >= 2
    /\ \E t \in indices.n2 : t[1] > t[2]

OrderedPaths3 == {t \in Atoms \X Atoms \X Atoms : IsPath3(t[1], t[2], t[3])}

\* C4: for a connected graph and reduce_symmetry=True, the number of angles
\* is the number of ordered paths a-b-c (a # c) divided by 2, and for each
\* such path exactly one of (a,b,c) and (c,b,a) is an angle.
C4_AngleCount ==
    (Derived /\ reduce_symmetry /\ Connected(EdgesOf(mol))) =>
        /\ 2 * Cardinality(indices.n3) = Cardinality(OrderedPaths3)
        /\ \A t \in OrderedPaths3 :
             Cardinality({t, Reversed(t)} \cap indices.n3) = 1

\* C4 witness: a connected graph with a cycle whose angles were derived
C4_Witness ==
    /\ Derived /\ reduce_symmetry
    /\ Connected(EdgesOf(mol))
    /\ \E a, b, c \in Atoms : Adj(a, b) /\ Adj(b, c) /\ Adj(c, a)
    /\ Cardinality(indices.n3) >= 4

Degree(a) == Cardinality({b \in Atoms : Adj(a, b)})

\* C5: with reduce_symmetry=True every angle and proper has distinct atoms
\* with consecutive atoms bonded, and every improper has its atom at
\* zero-based index 2 bonded to the three other, pairwise distinct atoms
\* (so that atom has degree >= 3).
C5_TuplesFromConnectivity ==
    (Derived /\ reduce_symmetry) =>
        /\ \A t \in indices.n3 :
             Len(t) = 3 /\ Cardinality({t[1], t[2], t[3]}) = 3
             /\ Adj(t[1], t[2]) /\ Adj(t[2], t[3])
        /\ \A t \in indices.n4 : Len(t) = 4 /\ IsPath4(t[1], t[2], t[3], t[4])
        /\ \A t \in indices.n4_improper :
             /\ Len(t) = 4 /\ Cardinality({t[1], t[2], t[4]}) = 3
             /\ Adj(t[3], t[1]) /\ Adj(t[3], t[2]) /\ Adj(t[3], t[4])
             /\ Degree(t[3]) >= 3

\* C5 witness: a graph with a triangle that yields angles, propers and
\* impropers
C5_Witness ==
    /\ Derived /\ reduce_symmetry
    /\ \E a, b, c \in Atoms : Adj(a, b) /\ Adj(b, c) /\ Adj(c, a)
    /\ indices.n3 # {} /\ indices.n4 # {} /\ indices.n4_improper # {}

ClassOf(level, t) == IF level = "n4_improper" THEN CyclicClass(t) ELSE ReversalClass(t)

SameClassCounts(level, s1, s2) ==
    \A t \in s1 \cup s2 :
        Cardinality(ClassOf(level, t) \cap s1) = Cardinality(ClassOf(level, t) \cap s2)

\* C6: two reduced derivations on the same graph with different traversal
\* orders keep the same number of representatives in every equivalence
\* class of every interaction class (reversal for bonds, angles, propers;
\* the 3 cyclic permutations for impropers); with the same traversal order
\* the tuple sets are identical.
C6_TraversalIndependent ==
    (indices2 # NoIndices /\ reduce_symmetry) =>
        /\ SameClassCounts("n2", indices.n2, indices2.n2)
        /\ SameClassCounts("n3", indices.n3, indices2.n3)
        /\ SameClassCounts("n4", indices.n4, indices2.n4)
        /\ SameClassCounts("n4_improper", indices.n4_improper, indices2.n4_improper)
        /\ (mol2 = mol => indices2 = indices)

StarGraph == {<<0, 1>>, <<0, 2>>, <<0, 3>>}

\* C7: for the star graph (centre 0 bonded to 1, 2, 3) reduced derivation
\* yields exactly one improper, with atom 0 at index 2, and exactly 3
\* angles, one per neighbour pair through atom 0.
C7_StarGraph ==
    (Derived /\ reduce_symmetry /\ EdgesOf(mol) = StarGraph) =>
        /\ Cardinality(indices.n4_improper) = 1
        /\ \A t \in indices.n4_improper : t[3] = 0
        /\ Cardinality(indices.n3) = 3
        /\ \A a, b \in 1..3 : a # b =>
             Cardinality({<<a, 0, b>>, <<b, 0, a>>} \cap indices.n3) = 1

\* ------------------------------------------------------------------------
\* MolData.py: arrays, strings and keys
\* ------------------------------------------------------------------------
\* An ndarray is its shape and its flattened data. Energies are kept as
\* integer multiples of 1/Den, Den = MaxConfs!, so that the mean over up to
\* MaxConfs conformations is exact.
RECURSIVE Fact(_)
Fact(n) == IF n <= 1 THEN 1 ELSE n * Fact(n - 1)

Den == Fact(MaxConfs)

RECURSIVE Prod(_)
Prod(shape) == IF Len(shape) = 0 THEN 1 ELSE Head(shape) * Prod(Tail(shape))

RECURSIVE Sum(_)
Sum(s) == IF Len(s) = 0 THEN 0 ELSE Head(s) + Sum(Tail(s))

NdArray(shape, data) == [shape |-> shape, data |-> data]

Full(shape, v) == NdArray(shape, [i \in 1..Prod(shape) |-> v])

\* Python None where an array is expected
NoneArr == NdArray(<<-1>>, <<>>)

\* a - b, elementwise
ArrSub(a, b) == NdArray(a.shape, [i \in 1..Len(a.data) |-> a.data[i] - b.data[i]])

\* -a
ArrNeg(a) == NdArray(a.shape, [i \in 1..Len(a.data) |-> 0 - a.data[i]])

\* a.mean(): exact, the data being multiples of 1/Den
ArrMean(a) == Sum(a.data) \div Len(a.data)

ArrCenter_noop(a) == a

\* a -= a.mean()
ArrCenter(a) == NdArray(a.shape, [i \in 1..Len(a.data) |-> a.data[i] - ArrMean(a)])

\* np.zeros_like(a)
zeros_like(a) == Full(a.shape, 0)

\* Python None where a string is expected, and str(x)
NoneStr == "<None>"

str(x) == IF x = NoneStr THEN "None" ELSE x

\* np.array(str(x)): a 0-d string array, and str() of it
StrArray(x) == [str0d |-> str(x)]

StrOfArray(a) == a.str0d

\* Keys and force-field names are sequences of tokens: a token is "_" or a
\* word without underscore, so that splitting at "_" and prefix tests act
\* as on the characters.
K_xyz == <<"xyz">>
K_energy == <<"energy">>
K_gradient == <<"gradient">>
K_energy_ref == <<"energy", "_", "ref">>
K_gradient_ref == <<"gradient", "_", "ref">>
K_mol_id == <<"mol", "_", "id">>
K_mapped_smiles == <<"mapped", "_", "smiles">>
K_pdb == <<"pdb">>
K_smiles == <<"smiles">>
K_sequence == <<"sequence">>
K_improper_energy_ref == <<"improper", "_", "energy", "_", "ref">>
K_improper_gradient_ref == <<"improper", "_", "gradient", "_", "ref">>
K_energy_qm == <<"energy", "_", "qm">>
K_gradient_qm == <<"gradient", "_", "qm">>

P_energy == <<"energy", "_">>
P_gradient == <<"gradient", "_">>
P_nonbonded_energy == <<"nonbonded", "_", "energy", "_">>
P_nonbonded_gradient == <<"nonbonded", "_", "gradient", "_">>

N_qm == <<"qm">>
N_reference_ff == <<"reference", "_", "ff">>

param_keys == {<<"bond", "_", "k">>, <<"bond", "_", "eq">>, <<"angle", "_", "k">>,
               <<"angle", "_", "eq">>, <<"proper", "_", "ks">>, <<"proper", "_", "phases">>,
               <<"improper", "_", "ks">>, <<"improper", "_", "phases">>}

tuple_keys == {<<"atoms">>, <<"bonds">>, <<"angles">>, <<"propers">>, <<"impropers">>}

exclude_molecule_keys ==
    {K_xyz, K_mol_id, K_pdb, K_mapped_smiles, K_smiles, K_sequence} \cup param_keys

\* k.startswith(prefix)
startswith(k, prefix) ==
    Len(k) >= Len(prefix) /\ SubSeq(k, 1, Len(prefix)) = prefix

\* word in k, for a word without underscore
contains_word(k, word) == \E i \in 1..Len(k) : k[i] = word

\* k.split('_', maxsplit)
RECURSIVE split(_, _)
split(k, maxsplit) ==
    IF maxsplit = 0 \/ ~(\E i \in 1..Len(k) : k[i] = "_") THEN << k >>
    ELSE LET i == CHOOSE j \in 1..Len(k) :
                      k[j] = "_" /\ \A h \in 1..(j - 1) : k[h] # "_"
         IN << SubSeq(k, 1, i - 1) >> \o split(SubSeq(k, i + 1, Len(k)), maxsplit - 1)

\* a Python dict: a function from its keys
EmptyDict == << >>

DictSet(d, k, v) == [x \in (DOMAIN d) \cup {k} |-> IF x = k THEN v ELSE d[x]]

\* d.update(e)
DictUpdate(d, e) == [x \in (DOMAIN d) \cup (DOMAIN e) |-> IF x \in DOMAIN e THEN e[x] ELSE d[x]]

\* Python None where a dict is expected
NoneDict == DictSet(EmptyDict, <<"<None>">>, NoneArr)

\* ------------------------------------------------------------------------
\* MolData.py: the Molecule and Parameters a MolData owns, by their exported
\* dictionaries
\* ------------------------------------------------------------------------
NaN == 0 - 1000000

\* Molecule.to_dict(): the tuple arrays the molecule stores
Molecule_to_dict(molecule) == molecule

\* Molecule.from_dict(molecule_dict)
Molecule_from_dict(molecule_dict) == molecule_dict

\* Parameters.to_dict(): tuple ids and parameter values
Parameters_to_dict(parameters) == parameters

\* Parameters.from_dict(param_dict)
Parameters_from_dict(param_dict) == param_dict

\* Parameters.get_nan_params(mol): the molecule's tuple ids, values all NaN
get_nan_params(molecule) ==
    [k \in tuple_keys \cup param_keys |->
        IF k \in tuple_keys THEN molecule[k] ELSE Full(<<1>>, NaN)]

\* Python None where a Parameters object is expected
NoneParams == DictSet(EmptyDict, <<"<None>">>, NoneArr)

\* the molecule of the entries: MolAtoms atoms, no bonds
Mol0 == [k \in tuple_keys |-> IF k = <<"atoms">> THEN Full(<<MolAtoms>>, 1) ELSE Full(<<0>>, 0)]

\* classical parameters read from a force field for Mol0
Params0 ==
    [k \in tuple_keys \cup param_keys |->
        IF k \in tuple_keys THEN Mol0[k] ELSE Full(<<1>>, 5)]

\* ------------------------------------------------------------------------
\* MolData.py: the dataclass
\* ------------------------------------------------------------------------
validate_no_mol_id_assert(self) ==
    /\ \A k \in DOMAIN self.ff_energy : self.ff_energy[k].shape = self.energy.shape
    /\ \A k \in DOMAIN self.ff_gradient :
         self.gradient # NoneArr => self.ff_gradient[k].shape = self.gradient.shape

\* MolData._validate: TRUE iff no assertion fails
validate(self) ==
    /\ \A k \in DOMAIN self.ff_energy : self.ff_energy[k].shape = self.energy.shape
    /\ \A k \in DOMAIN self.ff_gradient :
         self.gradient # NoneArr => self.ff_gradient[k].shape = self.gradient.shape
    /\ self.mol_id # NoneStr /\ self.mol_id # "None"

\* the object after the generated __init__ and the assignments of
\* __post_init__, before _validate
post_init_fields(a) ==
    LET ff_energy0 == IF a.ff_energy = NoneDict THEN EmptyDict ELSE a.ff_energy
        ff_gradient0 == IF a.ff_gradient = NoneDict THEN EmptyDict ELSE a.ff_gradient
    IN [exists |-> TRUE,
        molecule |-> a.molecule,
        xyz |-> a.xyz,
        energy |-> a.energy,
        gradient |-> a.gradient,
        energy_ref |-> a.energy_ref,
        gradient_ref |-> a.gradient_ref,
        mol_id |-> str(a.mol_id),
        classical_parameters |->
            IF a.classical_parameters = NoneParams THEN get_nan_params(a.molecule)
            ELSE a.classical_parameters,
        sequence |-> a.sequence,
        smiles |-> a.smiles,
        improper_energy_ref |-> a.improper_energy_ref,
        improper_gradient_ref |-> a.improper_gradient_ref,
        mapped_smiles |-> a.mapped_smiles,
        pdb |-> a.pdb,
        ff_nonbonded_energy |->
            IF a.ff_nonbonded_energy = NoneDict THEN EmptyDict ELSE a.ff_nonbonded_energy,
        ff_nonbonded_gradient |->
            IF a.ff_nonbonded_gradient = NoneDict THEN EmptyDict ELSE a.ff_nonbonded_gradient,
        ff_energy |->
            IF N_qm \notin DOMAIN ff_energy0 THEN DictSet(ff_energy0, N_qm, a.energy)
            ELSE ff_energy0,
        ff_gradient |->
            IF N_qm \notin DOMAIN ff_gradient0 THEN DictSet(ff_gradient0, N_qm, a.gradient)
            ELSE ff_gradient0]

Raised(e) == [ok |-> FALSE, obj |-> NoMolData, err |-> e]

Returned(obj) == [ok |-> TRUE, obj |-> obj, err |-> ""]

\* MolData(**a): __init__, __post_init__ and _validate
MolData(a) ==
    LET self == post_init_fields(a)
    IN IF validate(self) THEN Returned(self) ELSE Raised("AssertionError")

\* the defaults of the dataclass fields
DefaultArgs ==
    [molecule |-> Mol0, xyz |-> NoneArr, energy |-> NoneArr, gradient |-> NoneArr,
     energy_ref |-> NoneArr, gradient_ref |-> NoneArr, mol_id |-> NoneStr,
     classical_parameters |-> NoneParams, sequence |-> NoneStr, smiles |-> NoneStr,
     improper_energy_ref |-> NoneArr, improper_gradient_ref |-> NoneArr,
     mapped_smiles |-> NoneStr, pdb |-> NoneStr,
     ff_nonbonded_energy |-> NoneDict, ff_nonbonded_gradient |-> NoneDict,
     ff_energy |-> NoneDict, ff_gradient |-> NoneDict]

\* MolData.from_arrays(**a)
from_arrays(a) ==
    LET energy_ref == ArrCenter(ArrSub(a.energy, a.nonbonded_energy))
        gradient == IF a.gradient = NoneArr THEN zeros_like(a.xyz) ELSE a.gradient
        nonbonded_gradient ==
            IF a.gradient = NoneArr THEN zeros_like(a.xyz) ELSE a.nonbonded_gradient
        gradient_ref == ArrSub(gradient, nonbonded_gradient)
        mol_id == IF a.mol_id # NoneStr THEN a.mol_id
                  ELSE IF a.smiles # NoneStr THEN a.smiles
                  ELSE IF a.sequence # NoneStr THEN a.sequence
                  ELSE ""
    IN IF a.gradient # NoneArr /\ a.nonbonded_gradient = NoneArr
       THEN Raised("AssertionError")
       ELSE MolData([DefaultArgs EXCEPT
                !.molecule = a.molecule,
                !.xyz = a.xyz,
                !.energy = a.energy,
                !.gradient = gradient,
                !.energy_ref = energy_ref,
                !.gradient_ref = gradient_ref,
                !.mol_id = mol_id,
                !.smiles = a.smiles,
                !.sequence = a.sequence,
                !.ff_nonbonded_energy = DictSet(EmptyDict, N_reference_ff, a.nonbonded_energy),
                !.ff_nonbonded_gradient = DictSet(EmptyDict, N_reference_ff, nonbonded_gradient),
                !.ff_energy = IF a.ff_energy # NoneArr
                              THEN DictSet(EmptyDict, N_reference_ff, a.ff_energy)
                              ELSE NoneDict,
                !.ff_gradient = IF a.ff_gradient # NoneArr
                                THEN DictSet(EmptyDict, N_reference_ff, a.ff_gradient)
                                ELSE NoneDict])

\* the keys of d put under prefix
Prefixed(prefix, d) == [k \in {prefix \o n : n \in DOMAIN d} |-> d[SubSeq(k, Len(prefix) + 1, Len(k))]]

DictUnion(d, e) == [x \in (DOMAIN d) \cup (DOMAIN e) |-> IF x \in DOMAIN d THEN d[x] ELSE e[x]]

ToDictRaised(e) == [ok |-> FALSE, dict |-> NoDict, err |-> e]

to_dict_no_energy_key_test(self) ==
    LET strs == [mapped_smiles |-> self.mapped_smiles, pdb |-> self.pdb,
                 smiles |-> self.smiles, sequence |-> self.sequence]
        strkey == [mapped_smiles |-> K_mapped_smiles, pdb |-> K_pdb,
                   smiles |-> K_smiles, sequence |-> K_sequence]
        present == {f \in DOMAIN strs : strs[f] # NoneStr}
        d_req == [k \in {K_xyz, K_energy, K_gradient, K_energy_ref, K_gradient_ref} |->
                    IF k = K_xyz THEN self.xyz
                    ELSE IF k = K_energy THEN self.energy
                    ELSE IF k = K_gradient THEN self.gradient
                    ELSE IF k = K_energy_ref THEN self.energy_ref
                    ELSE self.gradient_ref]
        d_id == DictSet(d_req, K_mol_id, StrArray(self.mol_id))
        d_str == DictUnion(d_id,
                    [k \in {strkey[f] : f \in present} |->
                        StrArray(strs[CHOOSE f \in present : strkey[f] = k])])
        d_ie == IF self.improper_energy_ref # NoneArr
                THEN DictSet(d_str, K_improper_energy_ref, self.improper_energy_ref)
                ELSE d_str
        d_ig == IF self.improper_gradient_ref # NoneArr
                THEN DictSet(d_ie, K_improper_gradient_ref, self.improper_gradient_ref)
                ELSE d_ie
        moldict == Molecule_to_dict(self.molecule)
        d_mol == DictUpdate(d_ig, moldict)
        pd == Parameters_to_dict(self.classical_parameters)
        paramdict == [k \in (DOMAIN pd) \ tuple_keys |-> pd[k]]
        d_par == DictUpdate(d_mol, paramdict)
        \* the four loops; the keys one loop adds are distinct (a fixed
        \* prefix before distinct names), so a duplicate can only be a key
        \* present before the loop
        e_ff == Prefixed(P_energy, self.ff_energy)
        d_e == DictUpdate(d_par, e_ff)
        g_ff == Prefixed(P_gradient, self.ff_gradient)
        d_g == DictUpdate(d_e, g_ff)
        ne_ff == Prefixed(P_nonbonded_energy, self.ff_nonbonded_energy)
        d_ne == DictUpdate(d_g, ne_ff)
        ng_ff == Prefixed(P_nonbonded_gradient, self.ff_nonbonded_gradient)
        d_ng == DictUpdate(d_ne, ng_ff)
    IN IF (DOMAIN moldict) \cap (DOMAIN d_ig) # {} THEN ToDictRaised("AssertionError")
       ELSE IF (DOMAIN paramdict) \cap (DOMAIN d_mol) # {} THEN ToDictRaised("ValueError")
       ELSE IF (DOMAIN g_ff) \cap (DOMAIN d_e) # {} THEN ToDictRaised("ValueError")
       ELSE IF (DOMAIN ne_ff) \cap (DOMAIN d_g) # {} THEN ToDictRaised("ValueError")
       ELSE IF (DOMAIN ng_ff) \cap (DOMAIN d_ne) # {} THEN ToDictRaised("ValueError")
       ELSE [ok |-> TRUE, dict |-> d_ng, err |-> ""]

\* MolData.to_dict(self)
to_dict(self) ==
    LET strs == [mapped_smiles |-> self.mapped_smiles, pdb |-> self.pdb,
                 smiles |-> self.smiles, sequence |-> self.sequence]
        strkey == [mapped_smiles |-> K_mapped_smiles, pdb |-> K_pdb,
                   smiles |-> K_smiles, sequence |-> K_sequence]
        present == {f \in DOMAIN strs : strs[f] # NoneStr}
        d_req == [k \in {K_xyz, K_energy, K_gradient, K_energy_ref, K_gradient_ref} |->
                    IF k = K_xyz THEN self.xyz
                    ELSE IF k = K_energy THEN self.energy
                    ELSE IF k = K_gradient THEN self.gradient
                    ELSE IF k = K_energy_ref THEN self.energy_ref
                    ELSE self.gradient_ref]
        d_id == DictSet(d_req, K_mol_id, StrArray(self.mol_id))
        d_str == DictUnion(d_id,
                    [k \in {strkey[f] : f \in present} |->
                        StrArray(strs[CHOOSE f \in present : strkey[f] = k])])
        d_ie == IF self.improper_energy_ref # NoneArr
                THEN DictSet(d_str, K_improper_energy_ref, self.improper_energy_ref)
                ELSE d_str
        d_ig == IF self.improper_gradient_ref # NoneArr
                THEN DictSet(d_ie, K_improper_gradient_ref, self.improper_gradient_ref)
                ELSE d_ie
        moldict == Molecule_to_dict(self.molecule)
        d_mol == DictUpdate(d_ig, moldict)
        pd == Parameters_to_dict(self.classical_parameters)
        paramdict == [k \in (DOMAIN pd) \ tuple_keys |-> pd[k]]
        d_par == DictUpdate(d_mol, paramdict)
        \* the four loops; the keys one loop adds are distinct (a fixed
        \* prefix before distinct names), so a duplicate can only be a key
        \* present before the loop
        e_ff == Prefixed(P_energy, self.ff_energy)
        d_e == DictUpdate(d_par, e_ff)
        g_ff == Prefixed(P_gradient, self.ff_gradient)
        d_g == DictUpdate(d_e, g_ff)
        ne_ff == Prefixed(P_nonbonded_energy, self.ff_nonbonded_energy)
        d_ne == DictUpdate(d_g, ne_ff)
        ng_ff == Prefixed(P_nonbonded_gradient, self.ff_nonbonded_gradient)
        d_ng == DictUpdate(d_ne, ng_ff)
    IN IF (DOMAIN moldict) \cap (DOMAIN d_ig) # {} THEN ToDictRaised("AssertionError")
       ELSE IF (DOMAIN paramdict) \cap (DOMAIN d_mol) # {} THEN ToDictRaised("ValueError")
       ELSE IF (DOMAIN e_ff) \cap (DOMAIN d_par) # {} THEN ToDictRaised("ValueError")
       ELSE IF (DOMAIN g_ff) \cap (DOMAIN d_e) # {} THEN ToDictRaised("ValueError")
       ELSE IF (DOMAIN ne_ff) \cap (DOMAIN d_g) # {} THEN ToDictRaised("ValueError")
       ELSE IF (DOMAIN ng_ff) \cap (DOMAIN d_ne) # {} THEN ToDictRaised("ValueError")
       ELSE [ok |-> TRUE, dict |-> d_ng, err |-> ""]

\* array_dict.get(key, None) followed by str() when it is an ndarray
GetStr(d, key) ==
    IF key \in DOMAIN d THEN StrOfArray(d[key]) ELSE NoneStr

GetArr(d, key) ==
    IF key \in DOMAIN d THEN d[key] ELSE NoneArr

\* the four dictionary comprehensions that recover the force-field names
ff_energy_of(d) ==
    LET ks == {k \in DOMAIN d : startswith(k, P_energy) /\ k # K_energy_ref}
    IN [n \in {split(k, 1)[2] : k \in ks} |-> d[CHOOSE k \in ks : split(k, 1)[2] = n]]

ff_gradient_of(d) ==
    LET ks == {k \in DOMAIN d : startswith(k, P_gradient) /\ k # K_gradient_ref}
    IN [n \in {split(k, 1)[2] : k \in ks} |-> d[CHOOSE k \in ks : split(k, 1)[2] = n]]

ff_nonbonded_energy_of_split_once(d) ==
    LET ks == {k \in DOMAIN d : startswith(k, P_nonbonded_energy)}
    IN [n \in {split(k, 1)[2] : k \in ks} |-> d[CHOOSE k \in ks : split(k, 1)[2] = n]]

ff_nonbonded_energy_of(d) ==
    LET ks == {k \in DOMAIN d : startswith(k, P_nonbonded_energy)}
    IN [n \in {split(k, 2)[3] : k \in ks} |-> d[CHOOSE k \in ks : split(k, 2)[3] = n]]

ff_nonbonded_gradient_of(d) ==
    LET ks == {k \in DOMAIN d : startswith(k, P_nonbonded_gradient)}
    IN [n \in {split(k, 2)[3] : k \in ks} |-> d[CHOOSE k \in ks : split(k, 2)[3] = n]]

\* MolData.from_dict(npz): loading what to_dict gave
from_dict(array_dict) ==
    LET molecule_dict ==
            [k \in {x \in DOMAIN array_dict :
                      /\ x \notin exclude_molecule_keys
                      /\ ~contains_word(x, "energy")
                      /\ ~contains_word(x, "gradient")} |-> array_dict[k]]
        param_dict ==
            [k \in {x \in DOMAIN array_dict : x \in param_keys \/ x \in tuple_keys} |->
                array_dict[k]]
    IN MolData([DefaultArgs EXCEPT
            !.xyz = array_dict[K_xyz],
            !.energy = array_dict[K_energy],
            !.gradient = array_dict[K_gradient],
            !.energy_ref = array_dict[K_energy_ref],
            !.gradient_ref = array_dict[K_gradient_ref],
            !.mol_id = StrOfArray(array_dict[K_mol_id]),
            !.molecule = Molecule_from_dict(molecule_dict),
            !.classical_parameters = Parameters_from_dict(param_dict),
            !.ff_energy = ff_energy_of(array_dict),
            !.ff_gradient = ff_gradient_of(array_dict),
            !.ff_nonbonded_energy = ff_nonbonded_energy_of(array_dict),
            !.ff_nonbonded_gradient = ff_nonbonded_gradient_of(array_dict),
            !.improper_energy_ref = GetArr(array_dict, K_improper_energy_ref),
            !.improper_gradient_ref = GetArr(array_dict, K_improper_gradient_ref),
            !.mapped_smiles = GetStr(array_dict, K_mapped_smiles),
            !.pdb = GetStr(array_dict, K_pdb),
            !.smiles = GetStr(array_dict, K_smiles),
            !.sequence = GetStr(array_dict, K_sequence)])

\* ------------------------------------------------------------------------
\* MolData.py: construction from an openmm system, a smiles string, a data
\* dictionary; enrichment by write_energies
\* ------------------------------------------------------------------------
\* Python None where a force-field name is expected
NoneName == <<"<None>">>

\* openmm_utils.get_energies(system, xyz): energies of shape (n_confs,) and
\* forces of the shape of xyz. The system restricted to a group of forces
\* is given by what it evaluates to: group.e[i] for conformation i, and
\* group.f for every force component.
get_energies(group, xyz) ==
    << NdArray(<<xyz.shape[1]>>, [i \in 1..xyz.shape[1] |-> group.e[i] * Den]),
       Full(xyz.shape, group.f * Den) >>

\* Molecule.add_features(feats): the molecule gains one array per feature
add_features(molecule, feats) ==
    DictUpdate(molecule, [k \in feats |-> Full(<<MolAtoms>>, 1)])

openff_features ==
    {<<"ring", "_", "encoding">>, <<"sp", "_", "hybridization">>,
     <<"is", "_", "aromatic">>, <<"degree">>}

\* Parameters.from_openmm_system(openmm_system, mol): the parameters, or the
\* exception sys.params_error that the extraction raises
Parameters_from_openmm_system(sys) ==
    IF sys.params_error = "" THEN Returned(Params0) ELSE Raised(sys.params_error)

\* the message of the ValueError raised when the extraction failed with e
CouldNotObtainParameters(e) ==
    "ValueError: Could not obtain parameters from openmm system: " \o e

extract_params_always_nan(sys, molecule, allow_nan_params) ==
    LET r == Parameters_from_openmm_system(sys)
    IN IF r.ok THEN r ELSE Returned(get_nan_params(molecule))

\* the try/except around Parameters.from_openmm_system
extract_params(sys, molecule, allow_nan_params) ==
    LET r == Parameters_from_openmm_system(sys)
    IN IF r.ok THEN r
       ELSE IF allow_nan_params THEN Returned(get_nan_params(molecule))
       ELSE Raised(CouldNotObtainParameters(r.err))

\* MolData.from_openmm_system(**a); a.sys is the openmm system (after
\* set_partial_charges, if partial charges were given)
from_openmm_system(a) ==
    LET molecule == Mol0
        extracted == extract_params(a.sys, molecule, a.allow_nan_params)
        params == IF extracted.ok THEN extracted.obj ELSE Params0
        r == MolData([DefaultArgs EXCEPT
                !.molecule = molecule, !.classical_parameters = params, !.xyz = a.xyz,
                !.energy = a.energy, !.gradient = a.gradient,
                !.energy_ref = a.energy_ref, !.gradient_ref = a.gradient_ref,
                !.mapped_smiles = a.mapped_smiles, !.pdb = a.pdb, !.mol_id = a.mol_id,
                !.sequence = a.sequence, !.smiles = a.smiles])
        total_ref == get_energies(a.sys.total, a.xyz)
        ff_name == IF a.ff_name = NoneName THEN N_reference_ff ELSE a.ff_name
        nonbonded == get_energies(a.sys.nonbonded, a.xyz)
        nonbonded_energy == nonbonded[1]
        nonbonded_gradient == ArrNeg(nonbonded[2])
        improper == get_energies(a.sys.improper, a.xyz)
    IN IF ~extracted.ok THEN extracted
       ELSE IF ~r.ok THEN r
       ELSE LET self1 == [r.obj EXCEPT
                    !.ff_energy = DictSet(@, ff_name, total_ref[1]),
                    !.ff_gradient = DictSet(@, ff_name, ArrNeg(total_ref[2])),
                    !.ff_nonbonded_energy = DictSet(@, ff_name, nonbonded_energy),
                    !.ff_nonbonded_gradient = DictSet(@, ff_name, nonbonded_gradient)]
                self2 == IF self1.energy_ref = NoneArr
                         THEN [self1 EXCEPT
                                !.energy_ref = ArrCenter(ArrSub(a.energy, nonbonded_energy)),
                                !.gradient_ref = ArrSub(a.gradient, nonbonded_gradient)]
                         ELSE self1
            IN Returned([self2 EXCEPT
                    !.improper_energy_ref = improper[1],
                    !.improper_gradient_ref = ArrNeg(improper[2])])

\* MolData.from_smiles(**a); a.sys is the system openff_utils.get_openmm_system
\* returns, a.canonical what openff_mol.to_smiles(mapped=False) returns
from_smiles(a) ==
    IF a.forcefield_type \in {"openmm", "openmmforcefields"} THEN Raised("NotImplementedError")
    ELSE IF a.forcefield_type # "openff" THEN Raised("ValueError")
    ELSE LET smiles == IF a.smiles # NoneStr THEN a.canonical ELSE NoneStr
             mol_id == IF a.mol_id = NoneStr THEN smiles ELSE a.mol_id
             r == from_openmm_system(
                    [sys |-> a.sys, xyz |-> a.xyz, energy |-> a.energy,
                     gradient |-> a.gradient, mol_id |-> mol_id,
                     energy_ref |-> a.energy_ref, gradient_ref |-> a.gradient_ref,
                     mapped_smiles |-> a.mapped_smiles, pdb |-> NoneStr,
                     ff_name |-> NoneName, sequence |-> NoneStr, smiles |-> smiles,
                     allow_nan_params |-> a.allow_nan_params])
         IN IF ~r.ok THEN r
            ELSE Returned([r.obj EXCEPT !.molecule = add_features(@, openff_features)])

\* data_dict.get(key, None) for a string entry
DataStr(data_dict, key) ==
    IF key \in DOMAIN data_dict THEN data_dict[key] ELSE NoneStr

K_partial_charges == <<"partial", "_", "charges">>

\* MolData.from_data_dict(data_dict, allow_nan_params=...); env holds what
\* the force field gives for the mapped smiles
from_data_dict(data_dict, allow_nan_params, env) ==
    LET mapped_smiles == DataStr(data_dict, K_mapped_smiles)
        pdb == DataStr(data_dict, K_pdb)
        smiles == DataStr(data_dict, K_smiles)
        sequence == DataStr(data_dict, K_sequence)
        mol_id == IF K_mol_id \in DOMAIN data_dict THEN data_dict[K_mol_id]
                  ELSE IF K_smiles \in DOMAIN data_dict THEN data_dict[K_smiles]
                  ELSE DataStr(data_dict, K_sequence)
        r == from_smiles(
                [mapped_smiles |-> mapped_smiles, xyz |-> data_dict[K_xyz],
                 energy |-> data_dict[K_energy_qm], gradient |-> data_dict[K_gradient_qm],
                 energy_ref |-> GetArr(data_dict, K_energy_ref),
                 gradient_ref |-> GetArr(data_dict, K_gradient_ref),
                 mol_id |-> mol_id, forcefield_type |-> "openff", smiles |-> smiles,
                 allow_nan_params |-> allow_nan_params,
                 sys |-> env.sys, canonical |-> env.canonical])
    IN IF mapped_smiles = NoneStr /\ pdb = NoneStr THEN Raised("AssertionError")
       ELSE IF mapped_smiles # NoneStr /\ pdb # NoneStr THEN Raised("AssertionError")
       ELSE IF mol_id = NoneStr THEN Raised("ValueError")
       ELSE IF mapped_smiles = NoneStr THEN Raised("NotImplementedError")
       ELSE IF ~r.ok THEN r
       ELSE Returned([r.obj EXCEPT
                !.sequence = sequence,
                !.ff_energy = DictUpdate(@, ff_energy_of(data_dict)),
                !.ff_gradient = DictUpdate(@, ff_gradient_of(data_dict)),
                !.ff_nonbonded_energy = DictUpdate(@, ff_nonbonded_energy_of(data_dict)),
                !.ff_nonbonded_gradient = DictUpdate(@, ff_nonbonded_gradient_of(data_dict))])

\* md.write_energies(openmm_system, forcefield_name); the energies of the
\* system are given in the units of the entry
write_energies(self, group, forcefield_name) ==
    LET total == get_energies(group, self.xyz)
    IN [self EXCEPT
            !.ff_energy = DictSet(@, forcefield_name, total[1]),
            !.ff_gradient = DictSet(@, forcefield_name, ArrNeg(total[2]))]

\* ------------------------------------------------------------------------
\* Inputs of the MolData operations
\* ------------------------------------------------------------------------
ConfCounts == 1..MaxConfs

EnergyVals == {0 - 10, 0 - 8}
NbVals == {0 - 5, 0 - 3}
RefVals == {0 - 1, 1}

\* a (n_confs,) array of the integers f[1..n]
Vec(f, n) == NdArray(<<n>>, [i \in 1..n |-> f[i] * Den])

EnergyArrays(n) == {Vec(f, n) : f \in [1..n -> EnergyVals]}
NbArrays(n) == {Vec(f, n) : f \in [1..n -> NbVals]}
RefArrays(n) == {Vec(f, n) : f \in [1..n -> RefVals]}

\* shape (n_confs, n_atoms, 3)
GradShape(n) == <<n, MolAtoms, Dim>>

Grad(n, v) == Full(GradShape(n), v * Den)

Xyz(n) == Full(GradShape(n), 2)

E0(n) == Vec([i \in 1..n |-> IF i % 2 = 1 THEN 0 - 10 ELSE 0 - 8], n)
Nb0(n) == Vec([i \in 1..n |-> 0 - 5], n)

\* force-field names, some of them made of the words the key prefixes use
N_ref == <<"ref">>
N_a_b == <<"a", "_", "b">>
N_energy_x == <<"energy", "_", "x">>

FFNameSeq == <<N_qm, N_ref, N_a_b, N_energy_x>>
FFNames == {FFNameSeq[i] : i \in 1..Len(FFNameSeq)}

NameCode(n) == CHOOSE i \in 1..Len(FFNameSeq) : FFNameSeq[i] = n

\* a dictionary with the names S, each with its own array of the given shape
FFDict(kind, S, shape) == [n \in S |-> Full(shape, (10 * kind + NameCode(n)) * Den)]

DictChoices(kind, shape) ==
    {NoneDict} \cup {FFDict(kind, S, shape) : S \in {T \in SUBSET FFNames : Cardinality(T) <= MaxFF}}

\* the four force-field dictionaries and the values each is given
FFFields ==
    [ff_energy |-> DictChoices(1, <<MaxConfs>>),
     ff_gradient |-> DictChoices(2, GradShape(MaxConfs)),
     ff_nonbonded_energy |-> DictChoices(3, <<MaxConfs>>),
     ff_nonbonded_gradient |-> DictChoices(4, GradShape(MaxConfs))]

OptStr(s) == {NoneStr, s}

MolIds == {NoneStr, "None", "", "m"}

BaseArgs(n) ==
    [DefaultArgs EXCEPT
        !.xyz = Xyz(n), !.energy = E0(n), !.gradient = Grad(n, 1),
        !.energy_ref = ArrCenter(ArrSub(E0(n), Nb0(n))), !.gradient_ref = Grad(n, 1),
        !.mol_id = "m"]

\* Mol0 with one more exported array under the key k
MolWith(k) == DictSet(Mol0, k, Full(<<MolAtoms>>, 1))

\* keys a molecule may export besides its tuples: a feature, and keys that
\* the entry, its parameters or a force-field name also use
ExtraMolKeys == {<<"degree">>, K_xyz, <<"bond", "_", "k">>, P_energy \o N_a_b}

\* the base arguments with two of the dictionaries given
WithDicts(f1, f2) ==
    {[BaseArgs(MaxConfs) EXCEPT ![f1] = d1, ![f2] = d2] :
        d1 \in FFFields[f1], d2 \in FFFields[f2]}

\* arguments of the dataclass constructor: the base arguments varied in
\* their strings, in their arrays, or in their dictionaries
ConstructArgs ==
    {[BaseArgs(MaxConfs) EXCEPT !.mol_id = i, !.smiles = s, !.sequence = q,
                                 !.mapped_smiles = ms, !.pdb = p] :
        i \in MolIds, s \in OptStr("CC"), q \in OptStr("AG"),
        ms \in OptStr("[C:1][C:2]"), p \in OptStr("ATOM")}
    \cup UNION {
        {[BaseArgs(n) EXCEPT !.energy = e, !.energy_ref = r,
                             !.improper_energy_ref = ie,
                             !.improper_gradient_ref = IF ie = NoneArr THEN NoneArr ELSE Grad(n, 3),
                             !.classical_parameters = cp] :
            e \in EnergyArrays(n), r \in RefArrays(n),
            ie \in {NoneArr, Full(<<n>>, 4 * Den)}, cp \in {NoneParams, Params0}}
        : n \in ConfCounts}
    \cup UNION {WithDicts(f1, f2) : f1 \in DOMAIN FFFields, f2 \in DOMAIN FFFields}
    \cup {[BaseArgs(MaxConfs) EXCEPT !.molecule = MolWith(k), !.ff_energy = fe] :
            k \in ExtraMolKeys, fe \in {NoneDict, FFDict(1, {N_a_b}, <<MaxConfs>>)}}
    \cup {[BaseArgs(MaxConfs) EXCEPT !.ff_energy = FFDict(1, {N_a_b}, <<MaxConfs + 1>>)],
          [BaseArgs(MaxConfs) EXCEPT !.ff_gradient = FFDict(2, {N_a_b}, <<MaxConfs>>)],
          [BaseArgs(MaxConfs) EXCEPT !.ff_nonbonded_energy = FFDict(3, {N_a_b}, <<MaxConfs + 1>>)],
          [BaseArgs(MaxConfs) EXCEPT !.ff_nonbonded_gradient = FFDict(4, {N_a_b}, <<MaxConfs>>)]}

\* arguments of from_arrays
FromArraysArgs ==
    UNION {
        {[molecule |-> Mol0, xyz |-> Xyz(n), energy |-> e, nonbonded_energy |-> nb,
          gradient |-> g, nonbonded_gradient |-> ng, smiles |-> NoneStr,
          sequence |-> NoneStr, mol_id |-> "m", ff_energy |-> fe,
          ff_gradient |-> IF fe = NoneArr THEN NoneArr ELSE Grad(n, 7)] :
            e \in EnergyArrays(n), nb \in NbArrays(n),
            g \in {NoneArr, Grad(n, 5)}, ng \in {NoneArr, Grad(n, 2)},
            fe \in {NoneArr, Full(<<n>>, 6 * Den)}}
        : n \in ConfCounts}
    \cup {[molecule |-> Mol0, xyz |-> Xyz(MaxConfs), energy |-> E0(MaxConfs),
           nonbonded_energy |-> Nb0(MaxConfs), gradient |-> NoneArr,
           nonbonded_gradient |-> NoneArr, smiles |-> s, sequence |-> q, mol_id |-> i,
           ff_energy |-> NoneArr, ff_gradient |-> NoneArr] :
            i \in MolIds, s \in OptStr("CC"), q \in OptStr("AG")}

\* what Parameters.from_openmm_system raises on a system: nothing, or an
\* exception with this text
ParamErrors == {"", "KeyError: 2", "NotImplementedError: improper"}

\* what an openmm system evaluates to on n conformations, by force group
OpenmmSystems(n) ==
    {[total |-> [e |-> [i \in 1..n |-> 0 - 7], f |-> 3],
      nonbonded |-> [e |-> nb, f |-> 2],
      improper |-> [e |-> [i \in 1..n |-> 1], f |-> 1],
      params_error |-> pe] : nb \in [1..n -> NbVals], pe \in ParamErrors}

Sys0(n) == CHOOSE sys \in OpenmmSystems(n) : sys.params_error = "" /\ \A i \in 1..n : sys.nonbonded.e[i] = 0 - 5

OpenmmBase(n) ==
    [sys |-> Sys0(n), xyz |-> Xyz(n), energy |-> E0(n), gradient |-> Grad(n, 5),
     mol_id |-> "m", energy_ref |-> NoneArr, gradient_ref |-> NoneArr,
     mapped_smiles |-> NoneStr, pdb |-> NoneStr, ff_name |-> NoneName,
     sequence |-> NoneStr, smiles |-> NoneStr, allow_nan_params |-> FALSE]

\* arguments of from_openmm_system; a supplied energy_ref is the energy
\* minus the nonbonded energy of the system, as the dataset scripts pass it,
\* or that difference centered
FromOpenmmArgs ==
    UNION {
        {[OpenmmBase(n) EXCEPT !.sys = sys, !.energy = e, !.energy_ref = r[1],
                               !.gradient_ref = r[2], !.allow_nan_params = an] :
            sys \in OpenmmSystems(n), e \in EnergyArrays(n), an \in BOOLEAN,
            r \in {<<NoneArr, NoneArr>>, <<NoneArr, Grad(n, 9)>>,
                   <<ArrSub(E0(n), Nb0(n)), Grad(n, 3)>>,
                   <<ArrCenter(ArrSub(E0(n), Nb0(n))), Grad(n, 3)>>}}
        : n \in ConfCounts}
    \cup {[OpenmmBase(MaxConfs) EXCEPT !.ff_name = fn, !.mol_id = i, !.smiles = s,
                                      !.mapped_smiles = ms] :
            fn \in {NoneName} \cup FFNames, i \in MolIds, s \in OptStr("CC"),
            ms \in OptStr("[C:1][C:2]")}

\* arguments of from_smiles
FromSmilesArgs ==
    {[mapped_smiles |-> "[C:1][C:2]", xyz |-> Xyz(MaxConfs), energy |-> E0(MaxConfs),
      gradient |-> Grad(MaxConfs, 5), energy_ref |-> r[1], gradient_ref |-> r[2],
      mol_id |-> i, forcefield_type |-> t, smiles |-> s, allow_nan_params |-> FALSE,
      sys |-> Sys0(MaxConfs), canonical |-> "CC"] :
        r \in {<<NoneArr, NoneArr>>, <<ArrSub(E0(MaxConfs), Nb0(MaxConfs)), Grad(MaxConfs, 3)>>},
        i \in MolIds, s \in OptStr("C-C"),
        t \in {"openff", "openmm", "openmmforcefields", "gaff"}}

\* data dictionaries: the required arrays with any of the optional entries;
\* the energies under the name energy_x have one conformation too many
OptionalData ==
    [k \in {K_mapped_smiles, K_pdb, K_smiles, K_sequence, K_mol_id, K_energy_ref,
            P_energy \o N_a_b, P_nonbonded_energy \o N_a_b, P_energy \o N_energy_x} |->
        IF k = K_mapped_smiles THEN "[C:1][C:2]"
        ELSE IF k = K_pdb THEN "ATOM"
        ELSE IF k = K_smiles THEN "C-C"
        ELSE IF k = K_sequence THEN "AG"
        ELSE IF k = K_mol_id THEN "m"
        ELSE IF k = K_energy_ref THEN ArrSub(E0(MaxConfs), Nb0(MaxConfs))
        ELSE IF k = P_energy \o N_energy_x THEN Full(<<MaxConfs + 1>>, 8 * Den)
        ELSE Full(<<MaxConfs>>, 6 * Den)]

RequiredData ==
    [k \in {K_xyz, K_energy_qm, K_gradient_qm} |->
        IF k = K_xyz THEN Xyz(MaxConfs)
        ELSE IF k = K_energy_qm THEN E0(MaxConfs)
        ELSE Grad(MaxConfs, 5)]

DataDicts ==
    {DictUpdate(RequiredData, [k \in S |-> OptionalData[k]]) : S \in SUBSET DOMAIN OptionalData}

\* force-field energies write_energies stores
WrittenEnergies(n) == [e |-> [i \in 1..n |-> 0 - 4], f |-> 6]

\* ---------------------------------------------------------------------
\* openmm systems: grappa/utils/openmm_utils.py
\* ---------------------------------------------------------------------

\* a python string as the sequence of its characters
upper_to_lower ==
    "A" :> "a" @@ "B" :> "b" @@ "C" :> "c" @@ "D" :> "d" @@ "E" :> "e" @@ "F" :> "f"
    @@ "G" :> "g" @@ "H" :> "h" @@ "I" :> "i" @@ "J" :> "j" @@ "K" :> "k" @@ "L" :> "l" @@ "M" :> "m"
    @@ "N" :> "n" @@ "O" :> "o" @@ "P" :> "p" @@ "Q" :> "q" @@ "R" :> "r" @@ "S" :> "s" @@ "T" :> "t"
    @@ "U" :> "u" @@ "V" :> "v" @@ "W" :> "w" @@ "X" :> "x" @@ "Y" :> "y" @@ "Z" :> "z"

\* str.lower()
lower(s) ==
    [i \in 1..Len(s) |-> IF s[i] \in DOMAIN upper_to_lower THEN upper_to_lower[s[i]] ELSE s[i]]

\* k in s, for python strings
in_str(k, s) ==
    \E i \in 1..(Len(s) - Len(k) + 1) : SubSeq(s, i, i + Len(k) - 1) = k

\* class names of openmm forces
HarmonicBondForce == <<"H", "a", "r", "m", "o", "n", "i", "c", "B", "o", "n", "d", "F", "o", "r", "c", "e">>

HarmonicAngleForce == <<"H", "a", "r", "m", "o", "n", "i", "c", "A", "n", "g", "l", "e", "F", "o", "r", "c", "e">>

PeriodicTorsionForce == <<"P", "e", "r", "i", "o", "d", "i", "c", "T", "o", "r", "s", "i", "o", "n", "F", "o", "r", "c", "e">>

NonbondedForce == <<"N", "o", "n", "b", "o", "n", "d", "e", "d", "F", "o", "r", "c", "e">>

CMMotionRemover == <<"C", "M", "M", "o", "t", "i", "o", "n", "R", "e", "m", "o", "v", "e", "r">>


\* a force of an openmm System: its class and its terms, in index order
Force(cls, terms) == [cls |-> cls, terms |-> terms]

\* a python argument that is None, a str or a list of str
NoneArg == [kind |-> "None", val |-> << >>]

StrArg(s) == [kind |-> "str", val |-> s]

ListArg(l) == [kind |-> "list", val |-> l]

\* the values `for k in arg` runs over: the elements of a list, the
\* characters of a str
iterate(arg) ==
    IF arg.kind = "list" THEN [i \in 1..Len(arg.val) |-> StrArg(arg.val[i])]
    ELSE [i \in 1..Len(arg.val) |-> StrArg(<<arg.val[i]>>)]

\* any([k.lower() in force_name for k in items])
any_in(items, force_name) ==
    \E i \in 1..Len(items) : in_str(lower(items[i].val), force_name)

\* System.removeForce(i), i counted from 1
removeForce(forces, i) ==
    [j \in 1..(Len(forces) - 1) |-> IF j < i THEN forces[j] ELSE forces[j + 1]]

\* for i in reversed(forces_to_remove): forces.removeForce(i)
RECURSIVE remove_reversed(_, _)
remove_reversed(forces, forces_to_remove) ==
    IF forces_to_remove = << >> THEN forces
    ELSE remove_reversed(removeForce(forces, forces_to_remove[Len(forces_to_remove)]),
                         SubSeq(forces_to_remove, 1, Len(forces_to_remove) - 1))

remove_forces_from_system_keep_ignored(forces, remove, keep) ==
    LET remove_list == IF remove.kind = "list" THEN iterate(remove) ELSE <<remove>>
        ToRemove(i) == any_in(remove_list, lower(forces[i].cls))
    IN [ok |-> TRUE, err |-> "",
        system |-> remove_reversed(forces,
                        SelectSeq([i \in 1..Len(forces) |-> i], ToRemove))]

\* remove_forces_from_system(system, remove, keep), forces being the forces
\* of system: the system object after
\* the call, or the error raised while the forces to remove are collected
remove_forces_from_system(forces, remove, keep) ==
    LET remove_list == IF remove.kind = "list" THEN iterate(remove) ELSE <<remove>>
        ToRemove(i) ==
            LET force_name == lower(forces[i].cls)
            IN IF keep.kind # "None" THEN ~any_in(iterate(keep), force_name)
               ELSE any_in(remove_list, force_name)
        forces_to_remove == SelectSeq([i \in 1..Len(forces) |-> i], ToRemove)
    IN IF /\ keep.kind = "None" /\ Len(forces) > 0
          /\ \E i \in 1..Len(remove_list) : remove_list[i].kind = "None"
       THEN [ok |-> FALSE, err |-> "AttributeError", system |-> forces]
       ELSE [ok |-> TRUE, err |-> "", system |-> remove_reversed(forces, forces_to_remove)]

\* tuple(sorted(t))
RECURSIVE sorted(_)
sorted(t) ==
    IF t = << >> THEN << >>
    ELSE LET i == CHOOSE i \in 1..Len(t) : \A j \in 1..Len(t) : t[i] <= t[j]
         IN <<t[i]>> \o sorted([j \in 1..(Len(t) - 1) |-> IF j < i THEN t[j] ELSE t[j + 1]])

\* s comes before t in the order of python tuples of one length
LexLess(s, t) ==
    \E i \in 1..Len(s) : s[i] < t[i] /\ \A j \in 1..(i - 1) : s[j] = t[j]

\* the rows of an index array holding the tuples S, in lexicographic order
RECURSIVE TupleSeq(_)
TupleSeq(S) ==
    IF S = {} THEN << >>
    ELSE LET t == CHOOSE x \in S : \A y \in S : x = y \/ LexLess(x, y)
         IN <<t>> \o TupleSeq(S \ {t})

\* a term of a HarmonicBondForce or HarmonicAngleForce
HarmonicTerm(atoms, eq, k) == [atoms |-> atoms, eq |-> eq, k |-> k]

\* a term of a PeriodicTorsionForce
TorsionTerm(atoms, periodicity, phase, k) ==
    [atoms |-> atoms, periodicity |-> periodicity, phase |-> phase, k |-> k]

\* Molecule.impropers: the improper tuples of the molecular graph
impropers(m) == IF m = NoMol THEN {} ELSE get_indices(m, TRUE).n4_improper

\* improper_set = {tuple(sorted(t)) for t in self.molecule.impropers}
improper_set(m) == {sorted(t) : t \in impropers(m)}

\* force.setTorsionParameters(i, ..., 0) for every term of force whose sorted
\* atoms are not in improper_set (atom ids are the atom indices)
zero_non_impropers(force, m) ==
    LET terms == force.terms
    IN [force EXCEPT !.terms =
            [i \in 1..Len(terms) |->
                IF sorted(terms[i].atoms) \notin improper_set(m)
                THEN [terms[i] EXCEPT !.k = 0] ELSE terms[i]]]

\* what MolData.from_openmm_system does to the openmm_system object it was
\* given, once the entry is constructed: all forces but the periodic
\* torsions are removed and the torsions that are no impropers are zeroed
improper_only(openmm_system, m) ==
    LET removed == remove_forces_from_system(openmm_system, NoneArg,
                                             ListArg(<<PeriodicTorsionForce>>))
        kept == removed.system
    IN IF \E i \in 1..Len(kept) : kept[i].cls # PeriodicTorsionForce
       THEN [ok |-> FALSE, err |-> "NotImplementedError",
             system |-> [i \in 1..Len(kept) |->
                           IF \A j \in 1..i : kept[j].cls = PeriodicTorsionForce
                           THEN zero_non_impropers(kept[i], m) ELSE kept[i]]]
       ELSE [ok |-> TRUE, err |-> "",
             system |-> [i \in 1..Len(kept) |-> zero_non_impropers(kept[i], m)]]


\* a particle of a NonbondedForce
Particle(charge, sigma, epsilon) == [charge |-> charge, sigma |-> sigma, epsilon |-> epsilon]

\* the places of the NonbondedForce objects among the forces
nonbonded_forces(forces) == {n \in 1..Len(forces) : forces[n].cls = NonbondedForce}

set_partial_charges_no_length_test(forces, partial_charges) ==
    LET nb == CHOOSE n \in nonbonded_forces(forces) : TRUE
    IN IF Cardinality(nonbonded_forces(forces)) # 1
       THEN [ok |-> FALSE, err |-> "ValueError", system |-> forces]
       ELSE [ok |-> TRUE, err |-> "",
             system |-> [forces EXCEPT ![nb].terms =
                [i \in 1..Len(@) |->
                    IF i <= Len(partial_charges)
                    THEN Particle(partial_charges[i], @[i].sigma, @[i].epsilon)
                    ELSE @[i]]]]

\* set_partial_charges(system, partial_charges), forces being the forces of
\* system: the system object after the call, or the error raised
set_partial_charges(forces, partial_charges) ==
    IF Cardinality(nonbonded_forces(forces)) > 1
    THEN [ok |-> FALSE, err |-> "ValueError", system |-> forces]
    ELSE IF nonbonded_forces(forces) = {}
    THEN [ok |-> FALSE, err |-> "ValueError", system |-> forces]
    ELSE LET nb == CHOOSE n \in nonbonded_forces(forces) : TRUE
         IN IF Len(partial_charges) # Len(forces[nb].terms)
            THEN [ok |-> FALSE, err |-> "ValueError", system |-> forces]
            ELSE [ok |-> TRUE, err |-> "",
                  system |-> [forces EXCEPT ![nb].terms =
                     [i \in 1..Len(@) |->
                         Particle(partial_charges[i], @[i].sigma, @[i].epsilon)]]]

\* ---------------------------------------------------------------------
\* write_to_system: grappa/utils/openmm_utils.py
\* ---------------------------------------------------------------------
\* {tuple(t): (ks[i], eqs[i]) for i, t in enumerate(tuples)}: a python dict
\* as the sequence of its items in insertion order; a repeated key keeps its
\* first place and takes the last value
lookup_of(tuples, ks, eqs) ==
    LET first == SelectSeq([i \in 1..Len(tuples) |-> i],
                           LAMBDA i : \A j \in 1..(i - 1) : tuples[j] # tuples[i])
        last(i) == CHOOSE j \in 1..Len(tuples) :
                      /\ tuples[j] = tuples[i]
                      /\ \A n \in (j + 1)..Len(tuples) : tuples[n] # tuples[i]
    IN [n \in 1..Len(first) |->
          [key |-> tuples[first[n]], k |-> ks[last(first[n])], eq |-> eqs[last(first[n])]]]

\* the place of key in the dict, 0 if it is no key
find(lookup, key) ==
    IF \E n \in 1..Len(lookup) : lookup[n].key = key
    THEN CHOOSE n \in 1..Len(lookup) : lookup[n].key = key
    ELSE 0

find_either_same_orientation(lookup, atoms) == find(lookup, atoms)

\* the place of the key atoms, or else of the key atoms read from the other
\* end, 0 if neither is a key
find_either(lookup, atoms) ==
    IF find(lookup, atoms) # 0 THEN find(lookup, atoms)
    ELSE find(lookup, Reversed(atoms))

\* dict.pop of the item at place n
pop(lookup, n) ==
    [j \in 1..(Len(lookup) - 1) |-> IF j < n THEN lookup[j] ELSE lookup[j + 1]]

\* the loop over the terms of a HarmonicBondForce or HarmonicAngleForce, from
\* term i on: a term whose atoms are a key of the lookup, as they are or from
\* the other end, takes the parameters of that key, and the key is popped
RECURSIVE overwrite_terms(_, _, _)
overwrite_terms(terms, i, lookup) ==
    IF i > Len(terms) THEN [terms |-> terms, lookup |-> lookup]
    ELSE LET atoms == terms[i].atoms
             n == find_either(lookup, atoms)
         IN IF n = 0 THEN overwrite_terms(terms, i + 1, lookup)
            ELSE overwrite_terms(
                    [terms EXCEPT ![i] = HarmonicTerm(atoms, lookup[n].eq, lookup[n].k)],
                    i + 1, pop(lookup, n))

zero_ordered_torsions_none(terms, ordered_torsions) == terms

\* the loop over the terms of a PeriodicTorsionForce
zero_ordered_torsions(terms, ordered_torsions) ==
    [i \in 1..Len(terms) |->
        IF sorted(terms[i].atoms) \in ordered_torsions
        THEN TorsionTerm(terms[i].atoms, terms[i].periodicity, terms[i].phase, 0)
        ELSE terms[i]]

\* the loop over the forces of the system, from force n on
RECURSIVE write_forces(_, _, _, _, _)
write_forces(forces, n, bond_lookup, angle_lookup, ordered_torsions) ==
    IF n > Len(forces)
    THEN [forces |-> forces, bond_lookup |-> bond_lookup, angle_lookup |-> angle_lookup]
    ELSE LET force == forces[n]
         IN IF force.cls = HarmonicBondForce
            THEN LET w == overwrite_terms(force.terms, 1, bond_lookup)
                 IN write_forces([forces EXCEPT ![n].terms = w.terms], n + 1,
                                 w.lookup, angle_lookup, ordered_torsions)
            ELSE IF force.cls = HarmonicAngleForce
            THEN LET w == overwrite_terms(force.terms, 1, angle_lookup)
                 IN write_forces([forces EXCEPT ![n].terms = w.terms], n + 1,
                                 bond_lookup, w.lookup, ordered_torsions)
            ELSE IF force.cls = PeriodicTorsionForce
            THEN write_forces(
                    [forces EXCEPT ![n].terms = zero_ordered_torsions(@, ordered_torsions)],
                    n + 1, bond_lookup, angle_lookup, ordered_torsions)
            ELSE write_forces(forces, n + 1, bond_lookup, angle_lookup, ordered_torsions)

\* new_force.addBond / addAngle for every item left in the lookup
added_terms(lookup) ==
    [n \in 1..Len(lookup) |-> HarmonicTerm(lookup[n].key, lookup[n].eq, lookup[n].k)]

\* a new PeriodicTorsionForce with a term for every tuple i and every
\* periodicity n with ks[i][n] != 0
torsion_force_all_ks(tuples, ks, phases) ==
    Force(PeriodicTorsionForce,
          Concat([i \in 1..Len(tuples) |->
                    [n \in 1..Len(ks[i]) |->
                        TorsionTerm(tuples[i], n, phases[i][n], ks[i][n])]]))

torsion_force(tuples, ks, phases) ==
    Force(PeriodicTorsionForce,
          Concat([i \in 1..Len(tuples) |->
                    LET ns == SelectSeq([n \in 1..Len(ks[i]) |-> n],
                                        LAMBDA n : ks[i][n] # 0)
                    IN [j \in 1..Len(ns) |->
                          TorsionTerm(tuples[i], ns[j], phases[i][ns[j]], ks[i][ns[j]])]]))

\* np.all(ks >= 0)
all_nonnegative(ks) ==
    \A i \in 1..Len(ks) : \A n \in 1..Len(ks[i]) : ks[i][n] >= 0

\* write_to_system(system, parameters), forces being the forces of system:
\* the system object after the call, or the assertion that failed
write_to_system(forces, parameters) ==
    LET bond_lookup == lookup_of(parameters.bonds, parameters.bond_k, parameters.bond_eq)
        angle_lookup == lookup_of(parameters.angles, parameters.angle_k, parameters.angle_eq)
        ordered_torsions ==
            {sorted(parameters.impropers[i]) : i \in 1..Len(parameters.impropers)}
            \cup {sorted(parameters.propers[i]) : i \in 1..Len(parameters.propers)}
        w == write_forces(forces, 1, bond_lookup, angle_lookup, ordered_torsions)
        new_bond_force ==
            IF w.bond_lookup # << >>
            THEN <<Force(HarmonicBondForce, added_terms(w.bond_lookup))>> ELSE << >>
        new_angle_force ==
            IF w.angle_lookup # << >>
            THEN <<Force(HarmonicAngleForce, added_terms(w.angle_lookup))>> ELSE << >>
        proper_torsion_force ==
            torsion_force(parameters.propers, parameters.proper_ks, parameters.proper_phases)
        improper_torsion_force ==
            torsion_force(parameters.impropers, parameters.improper_ks,
                          parameters.improper_phases)
    IN IF ~all_nonnegative(parameters.proper_ks) \/ ~all_nonnegative(parameters.improper_ks)
       THEN [ok |-> FALSE, err |-> "AssertionError", system |-> forces]
       ELSE [ok |-> TRUE, err |-> "",
             system |-> w.forces \o new_bond_force \o new_angle_force
                        \o <<proper_torsion_force, improper_torsion_force>>]

\* ---------------------------------------------------------------------
\* openmm systems given to the functions
\* ---------------------------------------------------------------------
\* the tuples of the molecular graph m
IndicesOf(m) == IF m = NoMol THEN NoIndices ELSE get_indices(m, TRUE)

\* the terms a classical force field puts on the tuples S
HarmonicTerms(S, eq, k) ==
    LET rows == TupleSeq(S) IN [i \in 1..Len(rows) |-> HarmonicTerm(rows[i], eq, k)]

TorsionTerms(S, periodicity, phase, k) ==
    LET rows == TupleSeq(S)
    IN [i \in 1..Len(rows) |-> TorsionTerm(rows[i], periodicity, phase, k)]

\* the particles of the NonbondedForce of n atoms
Particles(n) == [i \in 1..n |-> Particle(0, 30 + i, 40 + i)]

\* the system of a classical force field for the molecule m: one term per
\* bond, angle, proper and improper torsion, and the forces without tuples
ClassicalSystem(m) ==
    LET idx == IndicesOf(m)
    IN << Force(HarmonicBondForce, HarmonicTerms(idx.n2, 1, 5)),
          Force(HarmonicAngleForce, HarmonicTerms(idx.n3, 2, 6)),
          Force(PeriodicTorsionForce,
                TorsionTerms(idx.n4, 1, 0, 3) \o TorsionTerms(idx.n4_improper, 2, 180, 4)),
          Force(NonbondedForce, Particles(Len(idx.n1))),
          Force(CMMotionRemover, << >>) >>

\* atoms of the system that are not atoms of the molecule
OtherAtoms == [i \in 1..4 |-> NAtoms + i - 1]

\* another system for m: the improper and the proper torsions in two forces,
\* the angles written from the other end, no bond terms, and an angle and a
\* torsion term on atoms outside the molecule
SplitSystem(m) ==
    LET idx == IndicesOf(m)
    IN << Force(PeriodicTorsionForce,
                TorsionTerms(idx.n4_improper \cup {OtherAtoms}, 2, 180, 4)),
          Force(NonbondedForce, Particles(Len(idx.n1))),
          Force(HarmonicAngleForce,
                HarmonicTerms({Reversed(t) : t \in idx.n3} \cup {SubSeq(OtherAtoms, 1, 3)},
                              2, 6)),
          Force(PeriodicTorsionForce, TorsionTerms({Reversed(t) : t \in idx.n4}, 1, 0, 3)) >>

\* a system without NonbondedForce and a system with two of them
BareSystem == << Force(CMMotionRemover, << >>) >>

DoubleSystem ==
    << Force(NonbondedForce, Particles(NAtoms)), Force(CMMotionRemover, << >>),
       Force(NonbondedForce, Particles(NAtoms)) >>

\* the systems tried for the molecule m; the two systems that are no force
\* field of a molecule are tried with the molecule without rings whose
\* bonds all start at atom 0
SystemsOf(m) ==
    {ClassicalSystem(m), SplitSystem(m)}
    \cup IF m.bonds = [i \in 1..(NAtoms - 1) |-> <<0, i>>]
         THEN {BareSystem, DoubleSystem} ELSE {}

\* the partial charges tried on a system of NAtoms particles: one charge per
\* particle, or one charge too many, or none
ChargeArgs ==
    {[i \in 1..NAtoms |-> i], [i \in 1..NAtoms |-> 0 - i],
     [i \in 1..(NAtoms + 1) |-> 1], << >>}

\* connected molecular graphs, bonds and neighbours in index order
SystemMols ==
    {[bonds |-> OrientedBonds(E, {}), nbrs |-> SortedNbrs(E)] :
        E \in {G \in Graphs : Connected(G)}}

\* the number of periodicities of a torsion parameter row
NPeriodicity == 2

\* tuples without its first row, if it has one
Rest(tuples) == IF tuples = << >> THEN << >> ELSE Tail(tuples)

\* one row of force constants per torsion tuple: the row of tuple i holds the
\* binary digits of i + shift, so that rows with no, some and all constants
\* zero occur; sign = -1 makes the first constant negative
TorsionKs(n, shift, sign) ==
    [i \in 1..n |-> [p \in 1..NPeriodicity |->
        IF sign < 0 /\ i = 1 /\ p = 1 THEN 0 - 1
        ELSE (((i + shift) \div (2 ^ (p - 1))) % 2) * (i + p)]]

TorsionPhases(n) ==
    [i \in 1..n |-> [p \in 1..NPeriodicity |-> 180 * ((i + p) % 2)]]

\* grappa Parameters for the molecule m, on all its tuples or on all but the
\* first of each kind
ParametersOf(m, partial, shift, sign) ==
    LET idx == IndicesOf(m)
        rows(S) == IF partial THEN Rest(TupleSeq(S)) ELSE TupleSeq(S)
        bonds == rows(idx.n2)
        angles == rows(idx.n3)
        propers == rows(idx.n4)
        improper_rows == rows(idx.n4_improper)
    IN [bonds |-> bonds,
        bond_k |-> [i \in 1..Len(bonds) |-> 10 + i],
        bond_eq |-> [i \in 1..Len(bonds) |-> 20 + i],
        angles |-> angles,
        angle_k |-> [i \in 1..Len(angles) |-> 30 + i],
        angle_eq |-> [i \in 1..Len(angles) |-> 40 + i],
        propers |-> propers,
        proper_ks |-> TorsionKs(Len(propers), shift, sign),
        proper_phases |-> TorsionPhases(Len(propers)),
        impropers |-> improper_rows,
        improper_ks |-> TorsionKs(Len(improper_rows), shift + 1, 1),
        improper_phases |-> TorsionPhases(Len(improper_rows))]

ParametersArgs(m) ==
    {ParametersOf(m, partial, shift, 1) : partial \in BOOLEAN, shift \in {0, 1}}
    \cup {ParametersOf(m, FALSE, 0, 0 - 1)}

\* the keep and remove arguments tried on remove_forces_from_system
KeepArgs ==
    {NoneArg, ListArg(<< >>), ListArg(<<PeriodicTorsionForce>>),
     ListArg(<<NonbondedForce>>), ListArg(<<<<"n", "o", "n", "B", "O", "N", "D", "E", "D">>>>),
     ListArg(<<<<"T", "o", "r", "s", "i", "o", "n">>, <<"h", "a", "r", "m", "o", "n", "i", "c", "b", "o", "n", "d">>>>),
     ListArg(<<<<"F", "o", "r", "c", "e">>>>),
     ListArg(<<<<"b", "o", "n", "d", "e", "d", "f", "o", "r", "c", "e">>>>),
     StrArg(<<"n", "o", "n", "b", "o", "n", "d", "e", "d">>)}

RemoveArgs ==
    {NoneArg, StrArg(<<"n", "o", "n", "b", "o", "n", "d", "e", "d">>),
     ListArg(<<<<"H", "a", "r", "m", "o", "n", "i", "c">>>>),
     ListArg(<<<<"C", "M", "M">>, <<"t", "o", "r", "s", "i", "o", "n">>>>)}

\* ------------------------------------------------------------------------
\* State machine of a MolData entry
\* ------------------------------------------------------------------------
InitMolData ==
    /\ mol = NoMol /\ reduce_symmetry = TRUE /\ indices = NoIndices
    /\ mol2 = NoMol /\ indices2 = NoIndices
    /\ md = NoMolData
    /\ npz = NoDict
    /\ md_loaded = NoMolData
    /\ err = ""
    /\ call = NoCall
    /\ system = ClassicalSystem(mol)
    /\ tr = << >> /\ vl = << >> /\ te = << >>
    /\ ret = NoReturn /\ files = NoFiles

\* the arguments from_openmm_system is called with next to the system of the
\* molecule mol: every combination for the molecule without bonds, one set
\* of arrays for the molecules with bonds
OpenmmArgsFor(m) == IF m = NoMol THEN FromOpenmmArgs ELSE {OpenmmBase(MaxConfs)}

\* the result r of the constructor or classmethod op called with a
Constructed(op, a, r) ==
    /\ md' = r.obj
    /\ err' = r.err
    /\ call' = [op |-> op, args |-> a]

\* MolData(...)
Construct ==
    /\ ~md.exists /\ err = ""
    /\ \E a \in ConstructArgs : Constructed("MolData", a, MolData(a))
    /\ UNCHANGED <<npz, md_loaded>>
    /\ UNCHANGED tupleVars
    /\ UNCHANGED systemVars /\ UNCHANGED loaderVars /\ UNCHANGED utilVars

\* MolData.from_arrays(...)
FromArrays ==
    /\ ~md.exists /\ err = ""
    /\ \E a \in FromArraysArgs : Constructed("from_arrays", a, from_arrays(a))
    /\ UNCHANGED <<npz, md_loaded>>
    /\ UNCHANGED tupleVars
    /\ UNCHANGED systemVars /\ UNCHANGED loaderVars /\ UNCHANGED utilVars

\* MolData.from_openmm_system(...)
FromOpenmmSystem ==
    /\ ~md.exists /\ err = "" /\ call = NoCall
    /\ \E a \in OpenmmArgsFor(mol) :
         LET r == from_openmm_system(a)
             only == improper_only(system, mol)
             args == ("openmm_system" :> system) @@ a
         IN /\ system' = IF r.ok THEN only.system ELSE system
            /\ IF r.ok /\ ~only.ok
               THEN Constructed("from_openmm_system", args, Raised(only.err))
               ELSE Constructed("from_openmm_system", args, r)
    /\ UNCHANGED <<npz, md_loaded>>
    /\ UNCHANGED tupleVars
    /\ UNCHANGED loaderVars /\ UNCHANGED utilVars

\* MolData.from_smiles(...)
FromSmiles ==
    /\ ~md.exists /\ err = ""
    /\ \E a \in FromSmilesArgs : Constructed("from_smiles", a, from_smiles(a))
    /\ UNCHANGED <<npz, md_loaded>>
    /\ UNCHANGED tupleVars
    /\ UNCHANGED systemVars /\ UNCHANGED loaderVars /\ UNCHANGED utilVars

\* MolData.from_data_dict(...)
FromDataDict ==
    /\ ~md.exists /\ err = ""
    /\ \E d \in DataDicts :
         Constructed("from_data_dict", d,
                     from_data_dict(d, FALSE, [sys |-> Sys0(MaxConfs), canonical |-> "CC"]))
    /\ UNCHANGED <<npz, md_loaded>>
    /\ UNCHANGED tupleVars
    /\ UNCHANGED systemVars /\ UNCHANGED loaderVars /\ UNCHANGED utilVars

\* md.write_energies(system, forcefield_name), before the entry is exported
WriteEnergies ==
    /\ md.exists /\ ~HasDict(npz) /\ err = ""
    /\ Cardinality(DOMAIN md.ff_energy) <= MaxFF
    /\ \E forcefield_name \in FFNames :
         md' = write_energies(md, WrittenEnergies(md.xyz.shape[1]), forcefield_name)
    /\ UNCHANGED <<npz, md_loaded, err, call>>
    /\ UNCHANGED tupleVars
    /\ UNCHANGED systemVars /\ UNCHANGED loaderVars /\ UNCHANGED utilVars

\* md.to_dict()
ToDict ==
    /\ md.exists /\ ~HasDict(npz) /\ err = ""
    /\ LET r == to_dict(md)
       IN npz' = r.dict /\ err' = r.err
    /\ UNCHANGED <<md, md_loaded, call>>
    /\ UNCHANGED tupleVars
    /\ UNCHANGED systemVars /\ UNCHANGED loaderVars /\ UNCHANGED utilVars

\* MolData.from_dict(npz): loading what to_dict gave
FromDict ==
    /\ HasDict(npz) /\ ~md_loaded.exists /\ err = ""
    /\ LET r == from_dict(npz)
       IN md_loaded' = r.obj /\ err' = r.err
    /\ UNCHANGED <<md, npz, call>>
    /\ UNCHANGED tupleVars
    /\ UNCHANGED systemVars /\ UNCHANGED loaderVars /\ UNCHANGED utilVars

NextMolData ==
    \/ Construct
    \/ FromArrays
    \/ FromOpenmmSystem
    \/ FromSmiles
    \/ FromDataDict
    \/ WriteEnergies
    \/ ToDict
    \/ FromDict

SpecMolData == InitMolData /\ [][NextMolData]_vars

\* ------------------------------------------------------------------------
\* State machine of an openmm system in the hands of the caller
\* ------------------------------------------------------------------------
\* a molecule with bonds and a system a force field built for it
InitSystem ==
    /\ mol \in SystemMols /\ reduce_symmetry = TRUE /\ indices = NoIndices
    /\ mol2 = NoMol /\ indices2 = NoIndices
    /\ md = NoMolData
    /\ npz = NoDict
    /\ md_loaded = NoMolData
    /\ err = ""
    /\ call = NoCall
    /\ system \in SystemsOf(mol)
    /\ tr = << >> /\ vl = << >> /\ te = << >>
    /\ ret = NoReturn /\ files = NoFiles

\* remove_forces_from_system(system, remove, keep)
RemoveForcesFromSystem ==
    /\ call = NoCall
    /\ \E remove \in RemoveArgs, keep \in KeepArgs :
         LET r == remove_forces_from_system(system, remove, keep)
         IN /\ system' = r.system
            /\ err' = r.err
            /\ call' = [op |-> "remove_forces_from_system",
                        args |-> [system |-> system, remove |-> remove, keep |-> keep]]
    /\ UNCHANGED <<md, npz, md_loaded>>
    /\ UNCHANGED tupleVars
    /\ UNCHANGED loaderVars /\ UNCHANGED utilVars

\* write_to_system(system, parameters)
WriteToSystem ==
    /\ call = NoCall
    /\ \E parameters \in ParametersArgs(mol) :
         LET r == write_to_system(system, parameters)
         IN /\ system' = r.system
            /\ err' = r.err
            /\ call' = [op |-> "write_to_system",
                        args |-> [system |-> system, parameters |-> parameters]]
    /\ UNCHANGED <<md, npz, md_loaded>>
    /\ UNCHANGED tupleVars
    /\ UNCHANGED loaderVars /\ UNCHANGED utilVars

\* write_to_system(system, parameters) once more, on the system and with the
\* parameters of a call that returned
WriteToSystemAgain ==
    /\ call.op = "write_to_system" /\ err = ""
    /\ LET r == write_to_system(system, call.args.parameters)
       IN /\ system' = r.system
          /\ err' = r.err
          /\ call' = [op |-> "write_to_system again",
                      args |-> [system |-> call.args.system,
                                parameters |-> call.args.parameters,
                                once |-> system]]
    /\ UNCHANGED <<md, npz, md_loaded>>
    /\ UNCHANGED tupleVars
    /\ UNCHANGED loaderVars /\ UNCHANGED utilVars

\* set_partial_charges(system, partial_charges)
SetPartialCharges ==
    /\ call = NoCall
    /\ \E partial_charges \in ChargeArgs :
         LET r == set_partial_charges(system, partial_charges)
         IN /\ system' = r.system
            /\ err' = r.err
            /\ call' = [op |-> "set_partial_charges",
                        args |-> [system |-> system, partial_charges |-> partial_charges]]
    /\ UNCHANGED <<md, npz, md_loaded>>
    /\ UNCHANGED tupleVars
    /\ UNCHANGED loaderVars /\ UNCHANGED utilVars

NextSystem ==
    \/ SetPartialCharges
    \/ FromOpenmmSystem
    \/ RemoveForcesFromSystem
    \/ WriteToSystem
    \/ WriteToSystemAgain

SpecSystem == InitSystem /\ [][NextSystem]_vars


\* ------------------------------------------------------------------------
\* Properties of MolData
\* ------------------------------------------------------------------------
FFDictFields == {"ff_energy", "ff_gradient", "ff_nonbonded_energy", "ff_nonbonded_gradient"}

SameStrings(m, l) ==
    /\ l.mol_id = m.mol_id
    /\ l.smiles = m.smiles
    /\ l.sequence = m.sequence
    /\ l.mapped_smiles = m.mapped_smiles
    /\ l.pdb = m.pdb

SameArrays(m, l) ==
    /\ l.xyz = m.xyz
    /\ l.energy = m.energy
    /\ l.gradient = m.gradient
    /\ l.energy_ref = m.energy_ref
    /\ l.gradient_ref = m.gradient_ref
    /\ l.improper_energy_ref = m.improper_energy_ref
    /\ l.improper_gradient_ref = m.improper_gradient_ref

SameFFDicts(m, l) ==
    \A f \in FFDictFields :
        /\ \A n \in DOMAIN m[f] : n \in DOMAIN l[f] /\ l[f][n] = m[f][n]
        /\ \A n \in DOMAIN l[f] : n \in DOMAIN m[f]

\* C8: whenever to_dict succeeded on an entry, from_dict of the exported
\* dictionary succeeds and gives an entry with the same five strings (an
\* absent one still None), the same seven arrays, and the same four
\* force-field dictionaries: every name under the same dictionary with the
\* same array, and no name in a dictionary it was not in.
C8_RoundTrip ==
    /\ HasDict(npz) => from_dict(npz).ok
    /\ md_loaded.exists =>
        /\ SameStrings(md, md_loaded)
        /\ SameArrays(md, md_loaded)
        /\ SameFFDicts(md, md_loaded)

\* an entry with an absent smiles, a force-field name that begins with a
\* prefix word and one with an underscore, exported and loaded again
C8_Witness ==
    /\ md_loaded.exists
    /\ md.smiles = NoneStr
    /\ N_energy_x \in DOMAIN md.ff_energy
    /\ N_a_b \in DOMAIN md.ff_nonbonded_gradient

Centered(o) == o.exists => Sum(o.energy_ref.data) = 0

\* C9: every entry, whichever way it was constructed (constructor,
\* from_arrays, from_openmm_system, from_smiles, from_data_dict) or loaded
\* (from_dict), has an energy_ref of mean 0 over the conformations.
C9_EnergyRefCentered == Centered(md) /\ Centered(md_loaded)

\* the energy minus the nonbonded energy, per conformation
Diff(energy, nonbonded_energy) ==
    [i \in 1..Len(energy.data) |-> energy.data[i] - nonbonded_energy.data[i]]

\* ref is diff minus the mean of diff (stated without division)
IsCentered(ref, diff) ==
    /\ Len(ref) = Len(diff)
    /\ \A i \in 1..Len(diff) : Len(diff) * ref[i] = Len(diff) * diff[i] - Sum(diff)

ScenarioC_energy == Vec(<<0 - 10, 0 - 8>>, 2)
ScenarioC_nonbonded == Vec(<<0 - 5, 0 - 5>>, 2)
ScenarioC_energy_ref == Vec(<<0 - 1, 1>>, 2)

\* C10: from_arrays gives energy_ref = (energy - nonbonded_energy) minus the
\* mean of that difference, and gradient_ref = gradient - nonbonded_gradient
\* uncentered; energy [-10, -8] with nonbonded energy [-5, -5] gives
\* energy_ref [-1, 1]; from_openmm_system derives both in the same way from
\* the nonbonded energy and gradient of the system when no energy_ref is given.
C10_ReferenceDerivation ==
    /\ (call.op = "from_arrays" /\ md.exists) =>
        /\ md.energy_ref.shape = call.args.energy.shape
        /\ IsCentered(md.energy_ref.data, Diff(call.args.energy, call.args.nonbonded_energy))
        /\ md.gradient_ref.shape = call.args.xyz.shape
        /\ \A k \in 1..Len(md.gradient_ref.data) :
             md.gradient_ref.data[k] =
                IF call.args.gradient = NoneArr THEN 0
                ELSE call.args.gradient.data[k] - call.args.nonbonded_gradient.data[k]
        /\ (call.args.energy = ScenarioC_energy /\ call.args.nonbonded_energy = ScenarioC_nonbonded)
             => md.energy_ref = ScenarioC_energy_ref
    /\ (call.op = "from_openmm_system" /\ md.exists /\ call.args.energy_ref = NoneArr) =>
        /\ md.energy_ref.shape = call.args.energy.shape
        /\ IsCentered(md.energy_ref.data,
                      [i \in 1..Len(call.args.energy.data) |->
                          call.args.energy.data[i] - call.args.sys.nonbonded.e[i] * Den])
        /\ md.gradient_ref.shape = call.args.gradient.shape
        /\ \A k \in 1..Len(md.gradient_ref.data) :
             md.gradient_ref.data[k] =
                call.args.gradient.data[k] + call.args.sys.nonbonded.f * Den

\* from_arrays called on the energies of scenario C
C10_Witness ==
    /\ call.op = "from_arrays" /\ md.exists
    /\ call.args.energy = ScenarioC_energy
    /\ call.args.nonbonded_energy = ScenarioC_nonbonded
    /\ call.args.gradient # NoneArr
    /\ md.energy_ref = ScenarioC_energy_ref

\* the call was given no mol_id and nothing to derive one from
NoIdGiven ==
    \/ /\ call.op \in {"MolData", "from_smiles"}
       /\ call.args.mol_id = NoneStr /\ call.args.smiles = NoneStr
    \/ /\ call.op \in {"from_arrays", "from_openmm_system"}
       /\ call.args.mol_id = NoneStr /\ call.args.smiles = NoneStr
       /\ call.args.sequence = NoneStr
    \/ /\ call.op = "from_data_dict"
       /\ {K_mol_id, K_smiles, K_sequence} \cap DOMAIN call.args = {}

ShapesMatch(o) ==
    o.exists =>
        /\ \A n \in DOMAIN o.ff_energy : o.ff_energy[n].shape = o.energy.shape
        /\ \A n \in DOMAIN o.ff_nonbonded_energy : o.ff_nonbonded_energy[n].shape = o.energy.shape
        /\ \A n \in DOMAIN o.ff_gradient : o.ff_gradient[n].shape = o.gradient.shape
        /\ \A n \in DOMAIN o.ff_nonbonded_gradient :
             o.ff_nonbonded_gradient[n].shape = o.gradient.shape

\* C12: in every state an entry reaches (constructed, enriched, loaded)
\* each array of ff_energy and ff_nonbonded_energy has the shape of energy
\* and each array of ff_gradient and ff_nonbonded_gradient the shape of
\* gradient; an operation that would break this returns no entry.
C12_ShapesMatch == ShapesMatch(md) /\ ShapesMatch(md_loaded)

\* the keys to_dict writes for o, by where they come from
LevelKeys(o) ==
    {K_xyz, K_energy, K_gradient, K_energy_ref, K_gradient_ref, K_mol_id}
    \cup (IF o.mapped_smiles # NoneStr THEN {K_mapped_smiles} ELSE {})
    \cup (IF o.pdb # NoneStr THEN {K_pdb} ELSE {})
    \cup (IF o.smiles # NoneStr THEN {K_smiles} ELSE {})
    \cup (IF o.sequence # NoneStr THEN {K_sequence} ELSE {})
    \cup (IF o.improper_energy_ref # NoneArr THEN {K_improper_energy_ref} ELSE {})
    \cup (IF o.improper_gradient_ref # NoneArr THEN {K_improper_gradient_ref} ELSE {})

MoleculeKeys(o) == DOMAIN o.molecule

ParameterKeys(o) == (DOMAIN o.classical_parameters) \ tuple_keys

FFKeys(o) ==
    {P_energy \o n : n \in DOMAIN o.ff_energy}
    \cup {P_gradient \o n : n \in DOMAIN o.ff_gradient}
    \cup {P_nonbonded_energy \o n : n \in DOMAIN o.ff_nonbonded_energy}
    \cup {P_nonbonded_gradient \o n : n \in DOMAIN o.ff_nonbonded_gradient}

\* the number of items to_dict writes for o
ItemsWritten(o) ==
    Cardinality(LevelKeys(o)) + Cardinality(MoleculeKeys(o)) + Cardinality(ParameterKeys(o))
    + Cardinality(DOMAIN o.ff_energy) + Cardinality(DOMAIN o.ff_gradient)
    + Cardinality(DOMAIN o.ff_nonbonded_energy) + Cardinality(DOMAIN o.ff_nonbonded_gradient)

AllKeys(o) == LevelKeys(o) \cup MoleculeKeys(o) \cup ParameterKeys(o) \cup FFKeys(o)

\* two of the items to_dict writes for o have the same key
KeyCollision(o) == Cardinality(AllKeys(o)) < ItemsWritten(o)

\* C13: to_dict never overwrites a key. A returned dictionary has one key
\* per item written; and when two items (of the entry, its molecule, its
\* parameters apart from the tuple ids, or a prefixed force-field name such
\* as energy_ref for the name ref) have the same key, to_dict raises and
\* no dictionary is returned.
C13_NoSilentOverwrite ==
    /\ (md.exists /\ HasDict(npz)) =>
        /\ ~KeyCollision(md)
        /\ Cardinality(DOMAIN npz) = ItemsWritten(md)
    /\ (md.exists /\ KeyCollision(md)) =>
        /\ ~to_dict(md).ok
        /\ to_dict(md).err \in {"AssertionError", "ValueError"}
        /\ ~HasDict(to_dict(md).dict)

\* to_dict raised on an entry whose ff_energy has the name ref
C13_Witness ==
    /\ md.exists /\ N_ref \in DOMAIN md.ff_energy
    /\ err = "ValueError" /\ ~HasDict(npz)

\* the call in flight is from_openmm_system on a system whose parameter
\* extraction raises
ExtractionRaised ==
    call.op = "from_openmm_system" /\ call.args.sys.params_error # ""

\* C16: when extracting the classical parameters raises, allow_nan_params=True
\* lets construction continue and the MolData returned carries the NaN-filled
\* parameters of its molecule; allow_nan_params=False fails with an error
\* whose message includes the underlying cause, and returns no MolData
C16_AllowNanParams ==
    ExtractionRaised =>
        IF call.args.allow_nan_params
        THEN /\ err # CouldNotObtainParameters(call.args.sys.params_error)
             /\ md.exists => md.classical_parameters = get_nan_params(md.molecule)
             /\ (call.args.mol_id \notin {NoneStr, "None"}) => md.exists
        ELSE /\ ~md.exists
             /\ err = CouldNotObtainParameters(call.args.sys.params_error)

\* C16 witness: both outcomes of a failed extraction are seen, a MolData with
\* NaN parameters and an error naming the cause
C16_Witness ==
    /\ ExtractionRaised
    /\ \/ call.args.allow_nan_params /\ md.exists
          /\ md.classical_parameters = get_nan_params(md.molecule)
          /\ md.classical_parameters # Params0
       \/ ~call.args.allow_nan_params /\ ~md.exists
          /\ err = CouldNotObtainParameters("KeyError: 2")

\* the system the caller passed to the from_openmm_system call that returned
ReturnedFromOpenmmSystem == call.op = "from_openmm_system" /\ md.exists

\* C14: after from_openmm_system has returned, the caller's openmm_system
\* still contains every force it had before the call, and every
\* periodic-torsion term still has its original force constant
C14_CallerSystemUntouched ==
    ReturnedFromOpenmmSystem =>
        LET before == call.args.openmm_system
        IN /\ Len(system) = Len(before)
           /\ \A i \in 1..Len(before) :
                /\ system[i].cls = before[i].cls
                /\ Len(system[i].terms) = Len(before[i].terms)
                /\ before[i].cls = PeriodicTorsionForce =>
                     \A j \in 1..Len(before[i].terms) :
                        system[i].terms[j].k = before[i].terms[j].k

\* the atoms of t are distinct and bonded in a chain t[1]-t[2]-t[3]-t[4]
ProperChain(m, t) ==
    /\ Cardinality({t[i] : i \in 1..4}) = 4
    /\ \A i \in 1..3 : Bonded(EdgesOf(m), t[i], t[i + 1])

\* t is an improper torsion of m in the order of the tuple indexer: the
\* atom at zero-based index 2 is bonded to the three others
ImproperTorsion(m, t) ==
    /\ Cardinality({t[i] : i \in 1..4}) = 4
    /\ \A i \in {1, 2, 4} : Bonded(EdgesOf(m), t[3], t[i])

\* C15: in the system evaluated for improper_energy_ref, a periodic-torsion
\* term has a non-zero force constant only if its atoms are those of an
\* improper torsion of the molecule, and every term along a bonded chain
\* i-j-k-l that is no improper torsion has force constant 0
C15_OnlyImpropersLeft ==
    ReturnedFromOpenmmSystem =>
        \A i \in 1..Len(system) : \A j \in 1..Len(system[i].terms) :
            LET term == system[i].terms[j]
            IN /\ term.k # 0 => \E p \in Perms({1, 2, 3, 4}) :
                    ImproperTorsion(mol, [n \in 1..4 |-> term.atoms[p[n]]])
               /\ (ProperChain(mol, term.atoms) /\ ~ImproperTorsion(mol, term.atoms))
                    => term.k = 0

\* the characters c and d are the same letter, whatever their case
SameLetter(c, d) ==
    \/ c = d
    \/ c \in DOMAIN upper_to_lower /\ upper_to_lower[c] = d
    \/ d \in DOMAIN upper_to_lower /\ upper_to_lower[d] = c

\* name contains the string k, case-insensitively
ContainsIgnoringCase(name, k) ==
    \E o \in 0..(Len(name) - Len(k)) :
        \A j \in 1..Len(k) : SameLetter(name[o + j], k[j])

\* the positions, in the system before the call, of the forces whose class
\* name contains a string of the list L
KeptPositions(before, L) ==
    {i \in 1..Len(before) :
        \E n \in 1..Len(L) : ContainsIgnoringCase(before[i].cls, L[n])}

\* C20: remove_forces_from_system(system, keep=L) with L a list of strings
\* leaves exactly the forces whose class name contains, case-insensitively,
\* a string of L, in their original order, whatever the remove argument is
C20_KeepFilter ==
    (call.op = "remove_forces_from_system" /\ call.args.keep.kind = "list") =>
        LET before == call.args.system
            kept == SortedSeq(KeptPositions(before, call.args.keep.val))
        IN /\ err = ""
           /\ system = [n \in 1..Len(kept) |-> before[kept[n]]]

\* C20 witness: a keep list in another case than the class name kept some
\* forces and removed others, with a remove argument naming a kept force
C20_Witness ==
    /\ call.op = "remove_forces_from_system"
    /\ call.args.keep = ListArg(<<<<"n", "o", "n", "B", "O", "N", "D", "E", "D">>>>)
    /\ call.args.remove = StrArg(<<"n", "o", "n", "b", "o", "n", "d", "e", "d">>)
    /\ Len(call.args.system) > 1
    /\ Len(system) = 1 /\ system[1].cls = NonbondedForce

\* the places <<n, j>> of the terms of the forces of class cls in a system
\* whose atoms are the tuple t, read from either end
TermsOn(forces, cls, t) ==
    {pl \in UNION {{<<n, j>> : j \in 1..Len(forces[n].terms)} : n \in 1..Len(forces)} :
        /\ forces[pl[1]].cls = cls
        /\ forces[pl[1]].terms[pl[2]].atoms \in {t, Reversed(t)}}

\* the system holds at most one term of class cls on any tuple
AtMostOneTerm(forces, cls) ==
    \A n \in 1..Len(forces) : \A j \in 1..Len(forces[n].terms) :
        forces[n].cls = cls => Cardinality(TermsOn(forces, cls, forces[n].terms[j].atoms)) = 1

\* every tuple has exactly one term of class cls in the system after the
\* call, with its parameters, at the place of the term it matched before the
\* call or else in a force that was appended; the terms on other atoms are
\* as before
HarmonicWritten(cls, before, after, tuples, ks, eqs) ==
    /\ \A i \in 1..Len(tuples) :
          LET old == TermsOn(before, cls, tuples[i])
              new == TermsOn(after, cls, tuples[i])
          IN /\ Cardinality(new) = 1
             /\ \A pl \in new :
                  /\ after[pl[1]].terms[pl[2]].k = ks[i]
                  /\ after[pl[1]].terms[pl[2]].eq = eqs[i]
                  /\ IF old # {}
                     THEN /\ pl \in old
                          /\ after[pl[1]].terms[pl[2]].atoms = before[pl[1]].terms[pl[2]].atoms
                     ELSE pl[1] > Len(before) /\ after[pl[1]].terms[pl[2]].atoms = tuples[i]
    /\ \A n \in 1..Len(before) : \A j \in 1..Len(before[n].terms) :
          (/\ before[n].cls = cls
           /\ \A i \in 1..Len(tuples) :
                before[n].terms[j].atoms \notin {tuples[i], Reversed(tuples[i])})
          => after[n].terms[j] = before[n].terms[j]

\* write_to_system has returned
Written == call.op = "write_to_system" /\ err = ""

\* C18: for a system with at most one term per bond and per angle, after
\* write_to_system every bond and angle tuple of the parameters has exactly
\* one harmonic term, carrying the parameter's force constant and equilibrium
\* value: the existing term, overwritten, when one matches the tuple in
\* either orientation, a term of an appended force otherwise; the existing
\* terms on other atoms are unchanged
C18_BondsAnglesWritten ==
    (/\ Written
     /\ AtMostOneTerm(call.args.system, HarmonicBondForce)
     /\ AtMostOneTerm(call.args.system, HarmonicAngleForce)) =>
        LET before == call.args.system
            parameters == call.args.parameters
        IN /\ Len(system) >= Len(before)
           /\ \A n \in 1..Len(before) :
                /\ system[n].cls = before[n].cls
                /\ Len(system[n].terms) = Len(before[n].terms)
           /\ HarmonicWritten(HarmonicBondForce, before, system, parameters.bonds,
                              parameters.bond_k, parameters.bond_eq)
           /\ HarmonicWritten(HarmonicAngleForce, before, system, parameters.angles,
                              parameters.angle_k, parameters.angle_eq)

\* C18 witness: one call overwrote an angle term that is written from the
\* other end than the parameter tuple, left an angle term outside the
\* parameters alone, and appended a bond force for bonds the system lacked
C18_Witness ==
    /\ Written
    /\ LET before == call.args.system
           parameters == call.args.parameters
       IN /\ \E i \in 1..Len(parameters.angles) :
                \E pl \in TermsOn(before, HarmonicAngleForce, parameters.angles[i]) :
                    /\ before[pl[1]].terms[pl[2]].atoms # parameters.angles[i]
                    /\ system[pl[1]].terms[pl[2]].k = parameters.angle_k[i]
                    /\ system[pl[1]].terms[pl[2]].k # before[pl[1]].terms[pl[2]].k
          /\ \E n \in 1..Len(before) : \E j \in 1..Len(before[n].terms) :
                /\ before[n].cls = HarmonicAngleForce
                /\ TermsOn(system, HarmonicAngleForce, before[n].terms[j].atoms) = {<<n, j>>}
                /\ system[n].terms[j] = before[n].terms[j]
          /\ parameters.bonds # << >>
          /\ system[Len(before) + 1].cls = HarmonicBondForce
          /\ Len(system[Len(before) + 1].terms) = Len(parameters.bonds)

\* the number of terms of a torsion force on the atoms t with a periodicity
TorsionCount(force, t, periodicity) ==
    Cardinality({j \in 1..Len(force.terms) :
        force.terms[j].atoms = t /\ force.terms[j].periodicity = periodicity})

\* the number of non-zero force constants in the rows ks
NonZeroCount(ks) ==
    Cardinality({c \in UNION {{<<i, n>> : n \in 1..Len(ks[i])} : i \in 1..Len(ks)} :
                    ks[c[1]][c[2]] # 0})

\* force is a PeriodicTorsionForce with exactly one term per tuple i and
\* zero-based periodicity index n whose force constant is not zero, carrying
\* periodicity n + 1, that phase and that force constant
TorsionsAdded(force, tuples, ks, phases) ==
    /\ force.cls = PeriodicTorsionForce
    /\ Len(force.terms) = NonZeroCount(ks)
    /\ \A i \in 1..Len(tuples) : \A n \in 0..(Len(ks[i]) - 1) :
          IF ks[i][n + 1] # 0
          THEN /\ TorsionCount(force, tuples[i], n + 1) = 1
               /\ \E j \in 1..Len(force.terms) :
                    force.terms[j] = TorsionTerm(tuples[i], n + 1, phases[i][n + 1],
                                                 ks[i][n + 1])
          ELSE TorsionCount(force, tuples[i], n + 1) = 0

\* the atom sets of the proper and improper tuples of the parameters
ParameterAtomSets(parameters) ==
    {{parameters.propers[i][a] : a \in 1..4} : i \in 1..Len(parameters.propers)}
    \cup {{parameters.impropers[i][a] : a \in 1..4} : i \in 1..Len(parameters.impropers)}

\* C19: after write_to_system every periodic-torsion term that existed before
\* the call and whose atom set is that of a proper or improper tuple of the
\* parameters has force constant 0 and its atoms, periodicity and phase as
\* before, every other torsion term that existed is unchanged, and the two
\* appended torsion forces hold, for each parameter tuple and each
\* periodicity index n with a non-zero k, exactly one term with periodicity
\* n+1, that phase and that k, and no term for a zero k
C19_TorsionsWritten ==
    Written =>
        LET before == call.args.system
            parameters == call.args.parameters
        IN /\ Len(system) >= Len(before) + 2
           /\ \A n \in 1..Len(before) : before[n].cls = PeriodicTorsionForce =>
                /\ system[n].cls = PeriodicTorsionForce
                /\ Len(system[n].terms) = Len(before[n].terms)
                /\ \A j \in 1..Len(before[n].terms) :
                     LET term == before[n].terms[j]
                     IN IF {term.atoms[a] : a \in 1..4} \in ParameterAtomSets(parameters)
                        THEN system[n].terms[j] = [term EXCEPT !.k = 0]
                        ELSE system[n].terms[j] = term
           /\ TorsionsAdded(system[Len(system) - 1], parameters.propers,
                            parameters.proper_ks, parameters.proper_phases)
           /\ TorsionsAdded(system[Len(system)], parameters.impropers,
                            parameters.improper_ks, parameters.improper_phases)

\* C19 witness: one call zeroed a torsion term of the molecule, left the
\* torsion term on other atoms as it was, appended a proper term with
\* periodicity 2 and skipped a zero force constant
C19_Witness ==
    /\ Written
    /\ LET before == call.args.system
           parameters == call.args.parameters
       IN /\ \E n \in 1..Len(before) : \E j \in 1..Len(before[n].terms) :
                /\ before[n].cls = PeriodicTorsionForce
                /\ before[n].terms[j].k # 0
                /\ system[n].terms[j].k = 0
          /\ \E n \in 1..Len(before) : \E j \in 1..Len(before[n].terms) :
                /\ before[n].cls = PeriodicTorsionForce
                /\ before[n].terms[j].atoms = OtherAtoms
                /\ system[n].terms[j] = before[n].terms[j]
                /\ system[n].terms[j].k # 0
          /\ \E i \in 1..Len(parameters.propers) :
                /\ parameters.proper_ks[i][1] = 0
                /\ parameters.proper_ks[i][2] # 0
                /\ TorsionCount(system[Len(system) - 1], parameters.propers[i], 2) = 1
                /\ TorsionCount(system[Len(system) - 1], parameters.propers[i], 1) = 0

\* ------------------------------------------------------------------------
\* get_dataloaders: grappa/training/get_dataloaders.py
\* ------------------------------------------------------------------------
\* the number of molecules of the largest stored dataset
NMolIds == 2

\* an entry of a Dataset: the identity of its molecule and the dataset it
\* was stored in
Entry(mol_id, subdataset) == [mol_id |-> mol_id, subdataset |-> subdataset]

\* Dataset.load(path): dataset "a" holds every molecule, molecule 1 twice;
\* "b" holds the last molecule of "a"; "p" holds molecule 1 and one molecule
\* of its own
Dataset_load(path) ==
    IF path = "a" THEN <<Entry(1, "a")>> \o [i \in 1..NMolIds |-> Entry(i, "a")]
    ELSE IF path = "b" THEN <<Entry(NMolIds, "b")>>
    ELSE <<Entry(1, path), Entry(NMolIds + 1, path)>>

\* the mol_ids of a Dataset
MolIdsOf(dataset) == {dataset[i].mol_id : i \in 1..Len(dataset)}

\* no split given
NoSplit == [train |-> {0 - 1}, val |-> {0 - 1}, test |-> {0 - 1}]

\* Dataset.calc_split_ids(partition, seed, existing_split): the splits that
\* put every mol_id of the dataset into exactly one part and keep the part of
\* every mol_id of the existing split
Dataset_calc_split_ids(dataset, existing_split) ==
    LET existing == IF existing_split = NoSplit
                    THEN [train |-> {}, val |-> {}, test |-> {}] ELSE existing_split
        fresh == MolIdsOf(dataset) \ (existing.train \cup existing.val \cup existing.test)
    IN {[train |-> existing.train \cup {i \in fresh : f[i] = "train"},
         val |-> existing.val \cup {i \in fresh : f[i] = "val"},
         test |-> existing.test \cup {i \in fresh : f[i] = "test"}] :
            f \in [fresh -> {"train", "val", "test"}]}

\* the entries of dataset whose mol_id is in ids, in their order
WithIds(dataset, ids) == SelectSeq(dataset, LAMBDA e : e.mol_id \in ids)

\* Dataset.split(train_ids, val_ids, test_ids)
Dataset_split(dataset, train_ids, val_ids, test_ids) ==
    <<WithIds(dataset, train_ids), WithIds(dataset, val_ids), WithIds(dataset, test_ids)>>

\* Dataset.subsampled(factor, seed): the subsequences the seeded choice can
\* give, of the length the factor asks for
Dataset_subsampled(dataset, factor) ==
    {[n \in 1..Len(keep) |-> dataset[keep[n]]] :
        keep \in {SortedSeq(S) : S \in {T \in SUBSET (1..Len(dataset)) :
                                        Cardinality(T) = (Len(dataset) * factor) \div 100}}}

\* not len(paths) == len(set(paths))
duplicate_paths(paths) ==
    Cardinality({paths[i] : i \in 1..Len(paths)}) # Len(paths)

\* dataset = Dataset(); for ds in datasets: dataset += Dataset.load(ds)
load_all(datasets) == Concat([i \in 1..Len(datasets) |-> Dataset_load(datasets[i])])

split_sets_unsplit(dataset, split_ids) == <<dataset, dataset, dataset>>

\* tr, vl, te = dataset.split(*split_ids.values())
split_sets(dataset, split_ids) ==
    Dataset_split(dataset, split_ids.train, split_ids.val, split_ids.test)

\* the loop over the pure datasets of one kind: the set with every pure
\* dataset appended, or the ValueError for a pure dataset that is in paths
add_pure(set, pure_datasets, paths) ==
    IF \E i \in 1..Len(pure_datasets) : \E j \in 1..Len(paths) : pure_datasets[i] = paths[j]
    THEN [ok |-> FALSE, err |-> "ValueError", set |-> set]
    ELSE [ok |-> TRUE, err |-> "", set |-> set \o load_all(pure_datasets)]

\* what get_dataloaders(**a) can give: an error, or the train, validation
\* and test sets the three loaders are built on
get_dataloaders(a) ==
    LET paths == a.datasets
        dataset == load_all(a.datasets)
        Failed(e) == {[ok |-> FALSE, err |-> e, tr |-> << >>, vl |-> << >>, te |-> << >>]}
    IN IF duplicate_paths(paths) THEN Failed("ValueError")
       ELSE IF a.split_ids # NoSplit /\ a.splitpath # NoneStr THEN Failed("AssertionError")
       ELSE LET existing == IF a.splitpath # NoneStr THEN a.split_file ELSE a.split_ids
            IN UNION {
                 LET parts == split_sets(dataset, split_ids)
                     train == add_pure(parts[1], a.pure_train_datasets, paths)
                     val == add_pure(parts[2], a.pure_val_datasets, paths)
                     test == add_pure(parts[3], a.pure_test_datasets, paths)
                 IN IF ~train.ok \/ ~val.ok \/ ~test.ok THEN Failed("ValueError")
                    ELSE {[ok |-> TRUE, err |-> "", tr |-> t, vl |-> val.set, te |-> test.set] :
                            t \in IF a.tr_subsampling_factor = 0 THEN {train.set}
                                  ELSE Dataset_subsampled(train.set, a.tr_subsampling_factor)}
                 : split_ids \in Dataset_calc_split_ids(dataset, existing)}

\* the arguments get_dataloaders is called with; tr_subsampling_factor is in
\* percent, 0 for None; split_file is what the file at splitpath holds
ExistingSplit == [train |-> {1}, val |-> {}, test |-> {NMolIds}]

LoaderArgs ==
    [datasets : {<<"a">>, <<"a", "b">>, <<"a", "a">>},
     pure_train_datasets : {<< >>, <<"p">>, <<"a">>},
     pure_val_datasets : {<< >>, <<"p">>},
     pure_test_datasets : {<< >>, <<"p">>},
     split_ids : {NoSplit, ExistingSplit},
     splitpath : {NoneStr, "split.json"},
     split_file : {ExistingSplit},
     tr_subsampling_factor : {0, 50}]

\* ------------------------------------------------------------------------
\* State machine of get_dataloaders
\* ------------------------------------------------------------------------
InitLoaders ==
    /\ mol = NoMol /\ reduce_symmetry = TRUE /\ indices = NoIndices
    /\ mol2 = NoMol /\ indices2 = NoIndices
    /\ md = NoMolData
    /\ npz = NoDict
    /\ md_loaded = NoMolData
    /\ err = ""
    /\ call = NoCall
    /\ system = << >>
    /\ tr = << >> /\ vl = << >> /\ te = << >>
    /\ ret = NoReturn /\ files = NoFiles

\* get_dataloaders(...)
GetDataloaders ==
    /\ call = NoCall
    /\ \E a \in LoaderArgs : \E r \in get_dataloaders(a) :
         /\ tr' = r.tr /\ vl' = r.vl /\ te' = r.te
         /\ err' = r.err
         /\ call' = [op |-> "get_dataloaders", args |-> a]
    /\ UNCHANGED <<md, npz, md_loaded>>
    /\ UNCHANGED tupleVars
    /\ UNCHANGED systemVars /\ UNCHANGED utilVars

NextLoaders == GetDataloaders

SpecLoaders == InitLoaders /\ [][NextLoaders]_vars

\* get_dataloaders has returned its loaders
Built == call.op = "get_dataloaders" /\ err = ""

\* the mol_ids of the entries of a set that come from the pure datasets, and
\* of those that come from the split
PureIds(set, pure_datasets) ==
    {set[i].mol_id : i \in {j \in 1..Len(set) :
        \E n \in 1..Len(pure_datasets) : set[j].subdataset = pure_datasets[n]}}

SplitIds(set, pure_datasets) ==
    {set[i].mol_id : i \in {j \in 1..Len(set) :
        \A n \in 1..Len(pure_datasets) : set[j].subdataset # pure_datasets[n]}}

\* C17 as stated: after get_dataloaders has built the train, validation and
\* test sets, pure datasets included, no mol_id occurs in more than one of
\* the three sets
C17_NoSharedMolId ==
    Built =>
        /\ MolIdsOf(tr) \cap MolIdsOf(vl) = {}
        /\ MolIdsOf(tr) \cap MolIdsOf(te) = {}
        /\ MolIdsOf(vl) \cap MolIdsOf(te) = {}

\* C17 amended: among the entries that come from the identity-based split no
\* mol_id occurs in more than one of the three sets, and every entry of the
\* datasets is in one of them unless the training set was subsampled; the
\* entries of the pure datasets are added to their set whatever their mol_id
C17_NoSharedMolIdInSplit ==
    Built =>
        LET a == call.args
            train == SplitIds(tr, a.pure_train_datasets)
            val == SplitIds(vl, a.pure_val_datasets)
            test == SplitIds(te, a.pure_test_datasets)
        IN /\ train \cap val = {}
           /\ train \cap test = {}
           /\ val \cap test = {}
           /\ a.tr_subsampling_factor = 0 =>
                train \cup val \cup test = MolIdsOf(load_all(a.datasets))
           /\ PureIds(tr, a.pure_train_datasets) \subseteq MolIdsOf(load_all(a.pure_train_datasets))
           /\ a.tr_subsampling_factor = 0 =>
                PureIds(tr, a.pure_train_datasets) = MolIdsOf(load_all(a.pure_train_datasets))
           /\ PureIds(vl, a.pure_val_datasets) = MolIdsOf(load_all(a.pure_val_datasets))
           /\ PureIds(te, a.pure_test_datasets) = MolIdsOf(load_all(a.pure_test_datasets))

\* C17 witness: the split put molecule 1 into the training set only, and the
\* pure test dataset brought it into the test set as well
C17_Witness ==
    /\ Built
    /\ call.args.pure_test_datasets = <<"p">>
    /\ call.args.pure_train_datasets = << >>
    /\ 1 \in SplitIds(tr, << >>)
    /\ 1 \notin SplitIds(te, <<"p">>)
    /\ 1 \in MolIdsOf(te)

\* C26: remove_forces_from_system(system, keep='nonbonded'), keep being a
\* plain string, keeps only the forces whose class name contains
\* 'nonbonded' and removes every other force
C26_KeepString ==
    (/\ call.op = "remove_forces_from_system"
     /\ call.args.keep = StrArg(<<"n", "o", "n", "b", "o", "n", "d", "e", "d">>)) =>
        LET before == call.args.system
            kept == SortedSeq(KeptPositions(before, <<call.args.keep.val>>))
        IN /\ err = ""
           /\ system = [n \in 1..Len(kept) |-> before[kept[n]]]

\* the places <<n, j>> of the terms of the forces of class cls
Places(forces, cls) ==
    {pl \in UNION {{<<n, j>> : j \in 1..Len(forces[n].terms)} : n \in 1..Len(forces)} :
        forces[pl[1]].cls = cls}

\* how often a term occurs among the terms of the forces of class cls
TermCount(forces, cls, term) ==
    Cardinality({pl \in Places(forces, cls) : forces[pl[1]].terms[pl[2]] = term})

\* the terms of class cls of a system
TermsOf(forces, cls) ==
    {forces[pl[1]].terms[pl[2]] : pl \in Places(forces, cls)}

\* two systems hold the same terms of class cls, each as often
SameTerms(s1, s2, cls) ==
    /\ TermsOf(s1, cls) = TermsOf(s2, cls)
    /\ \A term \in TermsOf(s1, cls) : TermCount(s1, cls, term) = TermCount(s2, cls, term)

\* two systems hold the same torsion terms with a non-zero force constant,
\* each as often
SameEffectiveTorsions(s1, s2) ==
    /\ {t \in TermsOf(s1, PeriodicTorsionForce) : t.k # 0}
         = {t \in TermsOf(s2, PeriodicTorsionForce) : t.k # 0}
    /\ \A term \in TermsOf(s1, PeriodicTorsionForce) :
          term.k # 0 => TermCount(s1, PeriodicTorsionForce, term)
                        = TermCount(s2, PeriodicTorsionForce, term)

\* C29: applying write_to_system twice with the same parameters gives the
\* same bond and angle terms with the same values, and the same multiset of
\* periodic-torsion terms with a non-zero force constant, as applying it once
C29_WriteTwice ==
    (call.op = "write_to_system again") =>
        /\ err = ""
        /\ SameTerms(system, call.args.once, HarmonicBondForce)
        /\ SameTerms(system, call.args.once, HarmonicAngleForce)
        /\ SameEffectiveTorsions(system, call.args.once)

\* C29 witness: the second call ran on a system in which the first call had
\* appended a bond force and non-zero torsion terms, and zeroed those terms
\* before it added them again
C29_Witness ==
    /\ call.op = "write_to_system again" /\ err = ""
    /\ Len(call.args.once) > Len(call.args.system) + 2
    /\ Len(system) = Len(call.args.once) + 2
    /\ \E n \in 1..Len(call.args.once) : \E j \in 1..Len(call.args.once[n].terms) :
          /\ n > Len(call.args.system)
          /\ call.args.once[n].cls = PeriodicTorsionForce
          /\ call.args.once[n].terms[j].k # 0
          /\ system[n].terms[j].k = 0

\* C21: set_partial_charges changes nothing but the charges of the single
\* NonbondedForce: particle i gets charge partial_charges[i], sigma, epsilon
\* and all other forces stay; without a NonbondedForce, with more than one,
\* or with a number of charges other than the number of particles it raises
\* and leaves the system unchanged
C21_OnlyChargesSet ==
    (call.op = "set_partial_charges") =>
        LET before == call.args.system
            partial_charges == call.args.partial_charges
            nbs == {n \in 1..Len(before) : before[n].cls = NonbondedForce}
        IN IF \/ Cardinality(nbs) # 1
              \/ \E n \in nbs : Len(before[n].terms) # Len(partial_charges)
           THEN err # "" /\ system = before
           ELSE /\ err = ""
                /\ Len(system) = Len(before)
                /\ \A n \in 1..Len(before) :
                     IF n \in nbs
                     THEN /\ system[n].cls = NonbondedForce
                          /\ Len(system[n].terms) = Len(before[n].terms)
                          /\ \A i \in 1..Len(before[n].terms) :
                               /\ system[n].terms[i].charge = partial_charges[i]
                               /\ system[n].terms[i].sigma = before[n].terms[i].sigma
                               /\ system[n].terms[i].epsilon = before[n].terms[i].epsilon
                     ELSE system[n] = before[n]

\* C21 witness: a call changed the charges of a system with bond terms
C21_Witness ==
    /\ call.op = "set_partial_charges" /\ err = ""
    /\ system # call.args.system
    /\ \E n \in 1..Len(system) :
          /\ system[n].cls = NonbondedForce
          /\ system[n].terms[NAtoms].charge = 0 - NAtoms
    /\ \E n \in 1..Len(system) : system[n].cls = HarmonicBondForce /\ system[n].terms # << >>

\* C25: with reduce_symmetry=False every tuple is still derived from the
\* bonds: the consecutive atoms of every angle and of every proper are
\* bonded, and the atom at zero-based index 2 of every improper is bonded
\* to its three other atoms
C25_AllVariantsFromConnectivity ==
    (Derived /\ ~reduce_symmetry) =>
        /\ \A t \in indices.n3 : Adj(t[1], t[2]) /\ Adj(t[2], t[3])
        /\ \A t \in indices.n4 : Adj(t[1], t[2]) /\ Adj(t[2], t[3]) /\ Adj(t[3], t[4])
        /\ \A t \in indices.n4_improper :
             Adj(t[3], t[1]) /\ Adj(t[3], t[2]) /\ Adj(t[3], t[4])

\* ---------------------------------------------------------------------
\* get_subtopology: grappa/utils/openmm_utils.py
\* ---------------------------------------------------------------------
\* the id of an atom of a topology: a string (the serial number a PDB file
\* gives, or the default of Topology.addAtom) or the integer handed to
\* addAtom
StrId(n) == [type |-> "str", val |-> n]

IntId(n) == [type |-> "int", val |-> n]

\* an atom of a topology; its index is its place among the atoms, from 0
TopologyAtom(name, residue, id) == [name |-> name, residue |-> residue, id |-> id]

\* the places of the atoms kept, in the order of the topology
kept_atoms(topology, exclude_residues) ==
    SelectSeq([n \in 1..Len(topology.atoms) |-> n],
              LAMBDA n : \A i \in 1..Len(exclude_residues.val) :
                            topology.atoms[n].residue # exclude_residues.val[i])

\* new_topol_idx: the index in the new topology of the atom with the old
\* index, for the old indices kept
new_topol_idx(kept) == [old \in {kept[n] - 1 : n \in 1..Len(kept)} |->
                          (CHOOSE n \in 1..Len(kept) : kept[n] - 1 = old) - 1]

\* a get_subtopology that builds a new topology for None as well
get_subtopology_with_none(topology, exclude_residues) ==
    LET kept == IF exclude_residues = NoneArg
                THEN [n \in 1..Len(topology.atoms) |-> n]
                ELSE kept_atoms(topology, exclude_residues)
        idx == new_topol_idx(kept)
        bonds == SelectSeq(topology.bonds,
                           LAMBDA b : b[1] \in DOMAIN idx /\ b[2] \in DOMAIN idx)
    IN [atoms |-> [n \in 1..Len(kept) |->
                      TopologyAtom(topology.atoms[kept[n]].name, "DUM", IntId(kept[n] - 1))],
        bonds |-> [n \in 1..Len(bonds) |-> <<idx[bonds[n][1]], idx[bonds[n][2]]>>]]

\* get_subtopology(topology, exclude_residues): the topology returned; a
\* bond is the pair of the indices of its atoms
get_subtopology(topology, exclude_residues) ==
    IF exclude_residues = NoneArg
    THEN topology
    ELSE LET kept == kept_atoms(topology, exclude_residues)
             idx == new_topol_idx(kept)
             bonds == SelectSeq(topology.bonds,
                                LAMBDA b : b[1] \in DOMAIN idx /\ b[2] \in DOMAIN idx)
         IN [atoms |-> [n \in 1..Len(kept) |->
                           TopologyAtom(topology.atoms[kept[n]].name, "DUM", IntId(kept[n] - 1))],
             bonds |-> [n \in 1..Len(bonds) |-> <<idx[bonds[n][1]], idx[bonds[n][2]]>>]]

\* the number of atoms of the topologies tried
MaxTopAtoms == 3

ResidueNames == {"ALA", "HOH"}

AtomNames == <<"N", "CA", "C", "O", "H">>

\* the bonds a topology of n atoms can have, in the order of the indices
TopologyBonds(n) ==
    {TupleSeq(B) : B \in SUBSET {p \in (0..(n - 1)) \X (0..(n - 1)) : p[1] < p[2]}}

\* the topologies tried: atoms of the residues ALA and HOH, with the ids
\* str(index + 1) of a PDB file or with integer ids equal to the index
Topologies ==
    {[atoms |-> [n \in 1..MaxTopAtoms |->
                    TopologyAtom(AtomNames[n], residues[n],
                                 IF strIds THEN StrId(n) ELSE IntId(n - 1))],
      bonds |-> bonds] :
        residues \in [1..MaxTopAtoms -> ResidueNames],
        strIds \in BOOLEAN,
        bonds \in TopologyBonds(MaxTopAtoms)}

ExcludeArgs ==
    {NoneArg, ListArg(<< >>), ListArg(<<"HOH">>), ListArg(<<"HOH", "NA">>),
     ListArg(<<"ALA", "HOH">>)}

\* ---------------------------------------------------------------------
\* get_improper_positions: grappa/ff_utils/create_graph/utils.py
\* ---------------------------------------------------------------------
\* the permutations of utils.get_symmetric_tuples for level n4_improper:
\* (tuple[i], tuple[j], tuple[2], tuple[k]) for (i,j,k) in the list
CyclicPerms == << <<0, 1, 3>>, <<1, 3, 0>>, <<3, 0, 1>> >>

\* utils.get_symmetric_tuples(level="n4_improper", tuple=t)
utils_get_symmetric_tuples(t) ==
    [n \in 1..Len(CyclicPerms) |->
        <<t[CyclicPerms[n][1] + 1], t[CyclicPerms[n][2] + 1], t[3], t[CyclicPerms[n][3] + 1]>>]

\* the loop of get_improper_positions from row i (zero-based) on
RECURSIVE improper_positions_from(_, _, _, _)
improper_positions_from(dgl_indices, i, idx_tuples, positions) ==
    IF i >= Len(dgl_indices) THEN positions
    ELSE LET invariant_tuples == utils_get_symmetric_tuples(dgl_indices[i + 1])
         IN IF \E n \in 1..Len(invariant_tuples) : \E m \in 1..Len(idx_tuples) :
                   invariant_tuples[n] = idx_tuples[m]
            THEN improper_positions_from(dgl_indices, i + 1, idx_tuples, positions)
            ELSE improper_positions_from(dgl_indices, i + 1,
                                         Append(idx_tuples, invariant_tuples[1]),
                                         Append(positions, i))

\* the positions of the rows that differ from every earlier row
get_improper_positions_no_symmetry(dgl_indices) ==
    SelectSeq([n \in 1..Len(dgl_indices) |-> n - 1],
              LAMBDA i : \A j \in 1..i : dgl_indices[j] # dgl_indices[i + 1])

\* get_improper_positions(g), dgl_indices being g.nodes["n4_improper"].data["idxs"]
get_improper_positions(dgl_indices) ==
    improper_positions_from(dgl_indices, 0, << >>, << >>)

\* the number of improper rows of the graphs tried
MaxRows == 3

\* the impropers around atom 0 and around atom 1 of four atoms
ImproperRows == {t \in Perms(0..3) : t[3] \in {0, 1}}

\* the index arrays tried: up to MaxRows rows
ImproperArrays == UNION {[1..n -> ImproperRows] : n \in 0..MaxRows}

\* ---------------------------------------------------------------------
\* bonds_to_openff_graph: grappa/ff_utils/create_graph/utils.py
\* ---------------------------------------------------------------------
\* assign_standard_charge.atom_dict and .charge_dict, as functions of the
\* residue
atom_dict ==
    [r \in {"GLU", "ASP", "LYS", "ARG", "HIS", "HIE"} |->
        CASE r = "GLU" -> "OE1" [] r = "ASP" -> "OD1" [] r = "LYS" -> "NZ"
          [] r = "ARG" -> "NH1" [] r = "HIS" -> "ND1" [] r = "HIE" -> "ND1"]

charge_dict ==
    [r \in {"GLU", "ASP", "LYS", "ARG", "HIS", "HIE"} |->
        IF r \in {"GLU", "ASP"} THEN 0 - 1 ELSE 1]

\* assign_standard_charge(atom_name, residue)
assign_standard_charge(atom_name, residue) ==
    IF residue \in DOMAIN atom_dict /\ atom_name = atom_dict[residue]
    THEN charge_dict[residue]
    ELSE 0

Min(a, b) == IF a < b THEN a ELSE b

\* bonds_to_openff_graph(bond_indices, residues, atomic_numbers, atom_names):
\* the molecule returned, or the error raised. With atom_names None the
\* local name residue is read at line 375 before the loop of line 377 has
\* bound it
bonds_to_openff_graph(bond_indices, residues, atomic_numbers, atom_names) ==
    IF atom_names = NoneArg
    THEN [ok |-> FALSE, err |-> "UnboundLocalError: residue", mol |-> NoReturn]
    ELSE LET n == Min(Len(atom_names.val), Min(Len(residues), Len(atomic_numbers)))
         IN [ok |-> TRUE, err |-> "",
             mol |-> [atoms |-> [i \in 1..n |->
                                   [atomic_number |-> atomic_numbers[i],
                                    formal_charge |->
                                        assign_standard_charge(atom_names.val[i], residues[i])]],
                      bonds |-> bond_indices]]

\* the number of atoms of the molecules built from bonds
MaxGraphAtoms == 2

GraphResidues == {"GLU", "LYS", "ALA"}

GraphAtomNames == {"OE1", "NZ", "CA"}

\* the arguments tried: a residue and an atomic number per atom, the names
\* of the atoms (as many, or one fewer) or None, and no bond or the bond 0-1
GraphArgs ==
    {[bond_indices |-> b, residues |-> r, atomic_numbers |-> [i \in 1..MaxGraphAtoms |-> 5 + i],
      atom_names |-> a] :
        b \in {<< >>, << <<0, 1>> >>},
        r \in [1..MaxGraphAtoms -> GraphResidues],
        a \in {NoneArg} \cup {ListArg(l) : l \in [1..MaxGraphAtoms -> GraphAtomNames]
                                                 \cup [1..(MaxGraphAtoms - 1) -> GraphAtomNames]}}

\* ------------------------------------------------------------------------
\* State machine of the helper functions
\* ------------------------------------------------------------------------
InitUtils ==
    /\ mol = NoMol /\ reduce_symmetry = TRUE /\ indices = NoIndices
    /\ mol2 = NoMol /\ indices2 = NoIndices
    /\ md = NoMolData
    /\ npz = NoDict
    /\ md_loaded = NoMolData
    /\ err = ""
    /\ call = NoCall
    /\ system = << >>
    /\ tr = << >> /\ vl = << >> /\ te = << >>
    /\ ret = NoReturn /\ files = NoFiles

\* get_subtopology(topology, exclude_residues)
GetSubtopology ==
    /\ call = NoCall
    /\ \E topology \in Topologies, exclude_residues \in ExcludeArgs :
         /\ ret' = [returned |-> TRUE, val |-> get_subtopology(topology, exclude_residues)]
         /\ call' = [op |-> "get_subtopology",
                     args |-> [topology |-> topology, exclude_residues |-> exclude_residues]]
    /\ UNCHANGED <<md, npz, md_loaded, err, files>>
    /\ UNCHANGED tupleVars
    /\ UNCHANGED systemVars /\ UNCHANGED loaderVars

\* get_improper_positions(g)
GetImproperPositions ==
    /\ call = NoCall
    /\ \E dgl_indices \in ImproperArrays :
         /\ ret' = [returned |-> TRUE, val |-> get_improper_positions(dgl_indices)]
         /\ call' = [op |-> "get_improper_positions", args |-> [idxs |-> dgl_indices]]
    /\ UNCHANGED <<md, npz, md_loaded, err, files>>
    /\ UNCHANGED tupleVars
    /\ UNCHANGED systemVars /\ UNCHANGED loaderVars

\* bonds_to_openff_graph(bond_indices, residues, atomic_numbers, atom_names)
BondsToOpenffGraph ==
    /\ call = NoCall
    /\ \E a \in GraphArgs :
         LET r == bonds_to_openff_graph(a.bond_indices, a.residues, a.atomic_numbers,
                                        a.atom_names)
         IN /\ ret' = IF r.ok THEN [returned |-> TRUE, val |-> r.mol] ELSE NoReturn
            /\ err' = r.err
            /\ call' = [op |-> "bonds_to_openff_graph", args |-> a]
    /\ UNCHANGED <<md, npz, md_loaded, files>>
    /\ UNCHANGED tupleVars
    /\ UNCHANGED systemVars /\ UNCHANGED loaderVars

NextUtils ==
    \/ BondsToOpenffGraph
    \/ GetSubtopology
    \/ GetImproperPositions

SpecUtils == InitUtils /\ [][NextUtils]_vars

\* the value is among the strings of the list, or nothing is excluded
Excluded(residue, exclude_residues) ==
    /\ exclude_residues # NoneArg
    /\ \E i \in 1..Len(exclude_residues.val) : exclude_residues.val[i] = residue

\* C27: every atom of the topology get_subtopology returns has as id the
\* index the atom had in the original topology; the atoms kept are those
\* whose residue name is not excluded, in their order, and the bonds kept
\* are those between two kept atoms
C27_SubtopologyIds ==
    (call.op = "get_subtopology") =>
        LET topology == call.args.topology
            kept == SelectSeq([n \in 1..Len(topology.atoms) |-> n],
                              LAMBDA n : ~Excluded(topology.atoms[n].residue,
                                                   call.args.exclude_residues))
            placeOf(old) == CHOOSE n \in 1..Len(kept) : kept[n] - 1 = old
            bonds == SelectSeq(topology.bonds,
                               LAMBDA b : /\ \E n \in 1..Len(kept) : kept[n] - 1 = b[1]
                                          /\ \E n \in 1..Len(kept) : kept[n] - 1 = b[2])
        IN /\ Len(ret.val.atoms) = Len(kept)
           /\ \A n \in 1..Len(kept) :
                /\ ret.val.atoms[n].id = IntId(kept[n] - 1)
                /\ ret.val.atoms[n].name = topology.atoms[kept[n]].name
           /\ ret.val.bonds =
                [n \in 1..Len(bonds) |-> <<placeOf(bonds[n][1]) - 1, placeOf(bonds[n][2]) - 1>>]

\* C28: get_improper_positions returns, in increasing order, the positions
\* of the rows that are the first of their class under the three cyclic
\* permutations of the atoms around the central atom at zero-based index 2;
\* so every row is cyclic-equivalent to exactly one selected row
C28_OnePositionPerClass ==
    (call.op = "get_improper_positions") =>
        LET idxs == call.args.idxs
            positions == ret.val
            first == {i \in 0..(Len(idxs) - 1) :
                        \A j \in 0..(i - 1) : idxs[j + 1] \notin CyclicClass(idxs[i + 1])}
        IN /\ \A n \in 1..(Len(positions) - 1) : positions[n] < positions[n + 1]
           /\ {positions[n] : n \in 1..Len(positions)} = first
           /\ \A i \in 1..Len(idxs) :
                Cardinality({n \in 1..Len(positions) :
                                idxs[positions[n] + 1] \in CyclicClass(idxs[i])}) = 1

\* C28 witness: three rows, the last a cyclic permutation of the first and
\* different from it, the second of another class
C28_Witness ==
    /\ call.op = "get_improper_positions"
    /\ Len(call.args.idxs) >= 3
    /\ call.args.idxs[3] \in CyclicClass(call.args.idxs[1]) \ {call.args.idxs[1]}
    /\ call.args.idxs[2] \notin CyclicClass(call.args.idxs[1])
    /\ Len(ret.val) = 2 /\ ret.val[1] = 0 /\ ret.val[2] = 1

\* C30: bonds_to_openff_graph called with atom_names=None completes and
\* returns a molecule with one atom per entry of residues, every atom with
\* formal charge 0, and with the given bonds
C30_NoAtomNames ==
    (call.op = "bonds_to_openff_graph" /\ call.args.atom_names = NoneArg) =>
        /\ err = ""
        /\ ret.returned
        /\ Len(ret.val.atoms) = Len(call.args.residues)
        /\ \A i \in 1..Len(ret.val.atoms) : ret.val.atoms[i].formal_charge = 0
        /\ ret.val.bonds = call.args.bond_indices

\* ------------------------------------------------------------------------
\* The life of a MolData object: constructed, enriched, serialized
\* ------------------------------------------------------------------------
\* md.write_energies(openmm_system, forcefield_name) on an object that
\* to_dict has exported already: the method has no test of that
WriteEnergiesSerialized ==
    /\ md.exists /\ HasDict(npz) /\ err = ""
    /\ Cardinality(DOMAIN md.ff_energy) <= MaxFF
    /\ \E forcefield_name \in FFNames :
         md' = write_energies(md, WrittenEnergies(md.xyz.shape[1]), forcefield_name)
    /\ UNCHANGED <<npz, md_loaded, err, call>>
    /\ UNCHANGED tupleVars
    /\ UNCHANGED systemVars /\ UNCHANGED loaderVars /\ UNCHANGED utilVars

NextLifecycle ==
    \/ FromArrays
    \/ WriteEnergies
    \/ ToDict
    \/ WriteEnergiesSerialized

SpecLifecycle == InitMolData /\ [][NextLifecycle]_vars

\* C23: a MolData is never mutated after serialization: once to_dict has
\* exported the object, its arrays and force-field dictionaries stay what
\* was exported, whatever is called on it later
C23_NoMutationAfterSerialization ==
    (md.exists /\ HasDict(npz)) => to_dict(md).dict = npz

\* ------------------------------------------------------------------------
\* The conversion scripts: dataset_creation/benchmark_datasets/to_npz.py and
\* peptide_datasets/ds_from_pdb.py
\* ------------------------------------------------------------------------
\* the zero-based index of the last "." of the name, -1 without one
rfind_dot(name) ==
    IF \E i \in 1..Len(name) : name[i] = "."
    THEN (CHOOSE i \in 1..Len(name) :
             name[i] = "." /\ \A j \in (i + 1)..Len(name) : name[j] # ".") - 1
    ELSE 0 - 1

\* the name itself as the stem
stem_whole_name(name) == name

\* pathlib's Path(name).stem: the name without its last suffix; a leading
\* or trailing "." starts no suffix
stem(name) ==
    LET i == rfind_dot(name)
    IN IF 0 < i /\ i < Len(name) - 1 THEN SubSeq(name, 1, i) ELSE name

\* targetpath/(molpath.stem + '.npz')
target_file(name) == stem(name) \o <<".", "n", "p", "z">>

\* a file of the target directory: the source whose data it holds, and
\* whether the archive is complete (np.savez has closed it)
File(source, complete) == [source |-> source, complete |-> complete]

\* np.savez(path, ...) opens the archive at the path itself for writing:
\* what the path held is gone
savez_open(fs, path, source) ==
    [p \in (DOMAIN fs) \cup {path} |-> IF p = path THEN File(source, FALSE) ELSE fs[p]]

\* np.savez closes the archive after the last array
savez_close(fs, path) == [fs EXCEPT ![path].complete = TRUE]

\* the scripts: to_npz.main converts the child directories of dspath,
\* ds_from_pdb.main the files of source_path
Scripts == {"to_npz.main", "ds_from_pdb.main"}

is_unit(script, entry) == IF script = "to_npz.main" THEN entry.is_dir ELSE ~entry.is_dir

\* the number of entries of the source directories tried
MaxEntries == 2

SourceNames ==
    {<<"a">>, <<"b">>, <<"a", ".", "x">>, <<"a", ".", "y">>, <<".", "a">>, <<"a", ".">>}

\* what iterdir() gives: entries with distinct names, in any order
Listings ==
    {l \in UNION {[1..n -> [name : SourceNames, is_dir : BOOLEAN]] : n \in 0..MaxEntries} :
        \A i, j \in 1..Len(l) : i # j => l[i].name # l[j].name}

\* the target directory before the run: empty, or with the file of an
\* earlier run
TargetDirs == {NoFiles, [p \in {target_file(<<"a">>)} |-> File(<<"o", "l", "d">>, TRUE)]}

InitConvert ==
    /\ mol = NoMol /\ reduce_symmetry = TRUE /\ indices = NoIndices
    /\ mol2 = NoMol /\ indices2 = NoIndices
    /\ md = NoMolData
    /\ npz = NoDict
    /\ md_loaded = NoMolData
    /\ err = ""
    /\ call = NoCall
    /\ system = << >>
    /\ tr = << >> /\ vl = << >> /\ te = << >>
    /\ ret = NoReturn /\ files \in TargetDirs

Running == call.op \in Scripts

\* the entry the loop is at
molpath == call.args.entries[call.args.idx + 1]

\* main(...) is called: the loop over iterdir() starts
Main ==
    /\ call = NoCall
    /\ \E script \in Scripts, entries \in Listings :
         call' = [op |-> script, args |-> [entries |-> entries, idx |-> 0, writing |-> FALSE]]
    /\ UNCHANGED <<md, npz, md_loaded, err, ret, files>>
    /\ UNCHANGED tupleVars
    /\ UNCHANGED systemVars /\ UNCHANGED loaderVars

\* the entry is no unit of work: continue
Continue ==
    /\ Running /\ call.args.idx < Len(call.args.entries)
    /\ ~is_unit(call.op, molpath)
    /\ call' = [call EXCEPT !.args.idx = @ + 1]
    /\ UNCHANGED <<md, npz, md_loaded, err, ret, files>>
    /\ UNCHANGED tupleVars
    /\ UNCHANGED systemVars /\ UNCHANGED loaderVars

\* moldata.save(targetpath/(molpath.stem+'.npz')) starts: np.savez opens
\* the archive
SavezOpen ==
    /\ Running /\ call.args.idx < Len(call.args.entries)
    /\ is_unit(call.op, molpath) /\ ~call.args.writing
    /\ files' = savez_open(files, target_file(molpath.name), molpath.name)
    /\ call' = [call EXCEPT !.args.writing = TRUE]
    /\ UNCHANGED <<md, npz, md_loaded, err, ret>>
    /\ UNCHANGED tupleVars
    /\ UNCHANGED systemVars /\ UNCHANGED loaderVars

\* np.savez has written the arrays and closes the archive; the loop goes on
SavezClose ==
    /\ Running /\ call.args.writing
    /\ files' = savez_close(files, target_file(molpath.name))
    /\ call' = [call EXCEPT !.args.writing = FALSE, !.args.idx = @ + 1]
    /\ UNCHANGED <<md, npz, md_loaded, err, ret>>
    /\ UNCHANGED tupleVars
    /\ UNCHANGED systemVars /\ UNCHANGED loaderVars

\* the process is interrupted (killed, or an exception such as a full disk)
Interrupt ==
    /\ Running /\ call.args.idx < Len(call.args.entries)
    /\ call' = [call EXCEPT !.op = "interrupted"]
    /\ UNCHANGED <<md, npz, md_loaded, err, ret, files>>
    /\ UNCHANGED tupleVars
    /\ UNCHANGED systemVars /\ UNCHANGED loaderVars

NextConvert ==
    \/ Main
    \/ Continue
    \/ SavezOpen
    \/ SavezClose
    \/ Interrupt

SpecConvert == InitConvert /\ [][NextConvert]_vars

\* C22: save never leaves a partial file at the target path: after an
\* interruption at any point every file of the target directory is a
\* complete archive (the previous one or the new one)
C22_NoPartialFile ==
    (call.op = "interrupted") => \A p \in DOMAIN files : files[p].complete

\* C24: no two units of work of a run write the same file: when the loop is
\* through, every converted source directory (to_npz) or source file
\* (ds_from_pdb) has its own file target/(stem + '.npz') with its data
C24_OneFilePerUnit ==
    (Running /\ call.args.idx = Len(call.args.entries)) =>
        \A i \in 1..Len(call.args.entries) :
            is_unit(call.op, call.args.entries[i]) =>
                LET path == target_file(call.args.entries[i].name)
                IN path \in DOMAIN files /\ files[path] = File(call.args.entries[i].name, TRUE)

====
